---- MODULE Spec2Model ----
(***************************************************************************)
(* The rust-analyzer client session of llm-context-loader                  *)
(* (src/src/lsp_client.rs): one owner thread driving the API calls of      *)
(* RustAnalyzerClient against an arbitrary server process that writes      *)
(* length-prefixed frames on its standard output.                          *)
(***************************************************************************)
EXTENDS Integers, Sequences, FiniteSets, TLC

(* ------------------------------ bounds --------------------------------- *)
\* API calls (initialize / query) the owner may start before shutdown or drop
MaxCalls == 1
\* frames the server writes in one run
MaxFrames == 3
\* tokens that may sit unread in the pipe when the server writes a new frame
MaxPending == 1

\* threads calling send_request on one session at once
NThreads == 2
\* ids the concurrent callers allocate in one run
MaxIssued == 4
\* the largest max_wait_secs wait_for_ready is called with
MaxWaitSecs == 1
\* the longest a document_symbols call takes, in units of 100 ms
MaxProbeTicks == 2
\* the longest thread::sleep oversleeps, in units of 100 ms
MaxOversleep == 1
\* the longest message, in characters, framed and decoded (SpecFrame)
MaxChars == 3
\* how far from the limits the token counts of a context file are drawn (SpecCtx)
Margin == 1
\* the largest file_num a context file starts with (SpecCtx)
MaxFileNum == 2
\* the calls made on the context file in one run (SpecCtx)
MaxDirs == 2
\* the longest string made of the letters of "read" given to Action::from_str (SpecAction)
MaxStr == 4
\* the restarts one RestartableRustAnalyzerClient makes (SpecRestart)
MaxRestarts == 1
\* header lines a server puts before, and after, the Content-Length line
MaxExtra == 1
\* the process_node calls of one run (SpecNode)
MaxNodeCalls == 3
\* CacheManager calls in a run
MaxDbCalls == 3

\* the largest request id a run can allocate: the calls, one shutdown, one drop
MaxId == MaxCalls + 2

VARIABLES
    request_id,      \* RustAnalyzerClient.request_id (AtomicU64)
    process,         \* the child: "running", "exited" (not waited for), "reaped"
    inbuf,           \* bytes of the child's stdout not yet read, as tokens
    wire,            \* frames written to the child's stdin, in order
    op,              \* the API call the owner thread is in
    pc,              \* its position in that call
    expected_id,     \* send_request's id / read_response's expected_id
    line,            \* read_response's `line`
    header,          \* read_response's `header`, as the lines pushed
    response,        \* the message read_response returned to send_request
    result,          \* what the last send_request returned: "none", "ok", "err"
    ret,             \* what the last API call returned: [op, ok]
    poisoned,        \* the reader mutex is poisoned
    unwinding,       \* the owner thread is unwinding from a panic
    skipped,         \* kinds of frames the current read_response passed over
    okIds,           \* ids whose send_request returned Ok
    sigkill,         \* state of the child when drop's kill signalled it
    framesLeft,      \* frames the server may still write
    fails,           \* how send_request has failed so far: "write", "framing", "protocol"
    \* concurrent callers of send_request (SpecIds)
    t_pc,            \* each caller's position in send_request
    t_id,            \* each caller's `id`
    issued,          \* the values fetch_add returned, in order
    \* wait_for_ready (SpecWait)
    now,             \* the monotonic clock, in units of 100 ms
    start,           \* wait_for_ready's `start`
    max_wait_secs,   \* its argument
    w_pc,            \* its position
    probes,          \* document_symbols calls it has made
    symbols,         \* what the last document_symbols call returned
    w_ret,           \* what wait_for_ready returned
    \* one message through send_message and back through read_response (SpecFrame)
    f_msg,           \* the serialized message, as a sequence of characters
    f_stream,        \* the bytes written and not yet read
    f_pc,            \* position: written, reading the header, the body, decoding
    f_line,          \* read_response's `line`
    f_header,        \* read_response's `header`, as the lines pushed
    f_len,           \* read_response's `content_length`
    f_out,           \* the decoded message, or <<"invalid">>
    \* threads sharing one client, at the level of the two mutexes (SpecConc)
    writer,          \* the thread holding self.writer's lock, 0 for none
    reader,          \* the thread holding self.reader's lock, 0 for none
    c_pc,            \* each thread's position in send_request / send_notification
    c_kind,          \* what each thread sends: "request" or "notification"
    c_id,            \* each thread's request id, 0 for a notification
    stdin,           \* the chunks written to the child's stdin, in order
    stdout,          \* ids of the response frames in the child's stdout, unread
    answered,        \* ids of the requests the server has answered
    taken,           \* ids of the responses a read loop read and passed over
    got,             \* the id of the response each thread's read_response returned
    sawReader,       \* the reader lock was held when the thread asked for the writer
    \* RustAnalyzerClient::new (SpecNew)
    spawns,          \* the times Command::spawn was called
    \* the context files of the batch tool (SpecCtx)
    context_file,    \* the caller's ContextFile: [path, file_num, current_tokens]
    output_dir,      \* the output_dir argument: "some" or "none"
    disk,            \* the files on disk: path -> the pieces written, in order
    temps,           \* the temporary files created so far
    x_op,            \* the last call: "get_or_rotate_file", "process_directory_content"
    x_arg,           \* the ContextFile that call was given
    x_ret,           \* what it returned: "ok" or "err"
    x_file,          \* the ContextFile get_or_rotate_file returned
    used_files,      \* the Vec<ContextFile> process_directory_content returned
    rotated,         \* the call created a new context file
    dirs,            \* the calls made so far
    \* the summary cache of the batch tool (SpecCache)
    entries,         \* SummaryCache.entries: path hash -> SummaryEntry
    fs,              \* the file system: each file "absent", "walked" or "unreached"
    s_op,            \* the last call: "get_summary", "cleanup"
    s_path,          \* get_summary's file_path
    s_hash,          \* get_summary's content_hash
    s_ret,           \* what get_summary returned: a summary or "None"
    s_before,        \* the entries before the last call
    \* Action names (SpecAction)
    a_str,           \* a string given to Action::from_str, as its characters
    a_parsed,        \* what from_str returned for it: a variant, or "None"
    a_start,         \* an Action
    a_name,          \* what to_str returned for it
    a_back,          \* what from_str returned for that name
    \* process_node and the interactive loop (SpecNode, SpecLoop)
    tokens_of,       \* the estimated tokens of each text file
    total_tokens,    \* total_tokens
    processed,       \* processed
    included_files,  \* included_files
    all_context_files, \* the tracked list of context files
    n_call,          \* the last process_node call: [path, action]
    n_before,        \* the state that call started from
    to_process,      \* the loop's stack of nodes
    l_pc,            \* the loop: "loop", "finalize", "save_cache", "save_summaries", "done"
    l_ret,           \* what process_interactive_loop returned: "ok", "err"
    l_result,        \* the result of the loop closure: "ok", "err"
    action_cache,    \* the action cache: path -> action name
    saved,           \* what has been done at the end: "finalized", "cache", "summaries"
    \* CacheManager (SpecDb)
    doc_cache,       \* rows of the doc_cache table
    source_cache,    \* rows of the source_cache table
    k_calls,         \* the CacheManager calls made, with what each returned
    \* RestartableRustAnalyzerClient (SpecRestart)
    r_pc,            \* "starting", "ready", "dropping", "restarting", "failed"
    r_ret,           \* what the last get_or_restart returned: "client", "err"
    r_healthy,       \* is_healthy() of the client at the moment it was returned
    restarts         \* the restarts made

session == <<request_id, process, inbuf, wire, op, pc, expected_id, line, header,
             response, result, ret, poisoned, unwinding, skipped, okIds, sigkill,
             framesLeft, fails>>
callers == <<t_pc, t_id, issued>>
waiting == <<now, start, max_wait_secs, w_pc, probes, symbols, w_ret>>
framing == <<f_msg, f_stream, f_pc, f_line, f_header, f_len, f_out>>
locks == <<writer, reader, c_pc, c_kind, c_id, stdin, stdout, answered, taken, got,
           sawReader>>
ctx == <<context_file, output_dir, disk, temps, x_op, x_arg, x_ret, x_file, used_files,
         rotated, dirs>>
cache == <<entries, fs, s_op, s_path, s_hash, s_ret, s_before>>
names == <<a_str, a_parsed, a_start, a_name, a_back>>
walk == <<tokens_of, total_tokens, processed, included_files, all_context_files, n_call,
          n_before, to_process, l_pc, l_ret, l_result, action_cache, saved>>
db == <<doc_cache, source_cache, k_calls>>
batch == <<ctx, cache, names, walk, db>>
restart == <<r_pc, r_ret, r_healthy, restarts>>
aside == <<framing, locks, spawns, batch, restart>>

vars == <<session, callers, waiting, aside>>

(* ----------------------------- messages -------------------------------- *)
\* A JSON body, by the fields the client looks at: id (0: no u64 id),
\* method ("none": no method field), whether it has "result" / "error",
\* whether the result it has is JSON null, and how much of
\* params.token / params.value.message / params.value.percentage it has
\* ("none": no params).
NoMsg == [id |-> 0, method |-> "none", hasResult |-> FALSE, hasError |-> FALSE,
          resultNull |-> FALSE, params |-> "none"]

Responses == [id : 1..MaxId, method : {"none"}, hasResult : BOOLEAN, hasError : BOOLEAN,
              resultNull : {FALSE}, params : {"none"}]

Notifications == [id : {0}, method : {"$/progress", "window/logMessage"},
                  hasResult : {FALSE}, hasError : {FALSE},
                  resultNull : {FALSE}, params : {"none"}]

Messages == Responses \cup Notifications

\* A token of the child's stdout: a header line, the blank line, or a body.
Tok(t, m) == [t |-> t, m |-> m]
LineTok(t) == Tok(t, NoMsg)

\* The header blocks a server may write before a body.
\*   "CL"    Content-Length: <the body's byte length>\r\n
\*   "X"     any other header line
\*   "BADCL" Content-Length: with a value that is no usize
\*   "HUGE"  Content-Length: with a usize above isize::MAX
\*   "CRLF"  the blank line
HeaderBlocks ==
    { <<LineTok("CL"), LineTok("CRLF")>>,
      <<LineTok("X"), LineTok("CL"), LineTok("CRLF")>> }

BadHeaderBlocks ==
    { <<LineTok("X"), LineTok("CRLF")>>,
      <<LineTok("BADCL"), LineTok("CRLF")>>,
      <<LineTok("HUGE"), LineTok("CRLF")>> }

\* What a server that dies while writing leaves behind: a partial line, a
\* header block without its blank line, a body shorter than declared.
TruncatedFrames ==
    { <<LineTok("PART")>>,
      <<LineTok("CL")>>,
      <<LineTok("CL"), LineTok("CRLF"), LineTok("SHORT")>> }


(* ------------------------- pure parts of the code ---------------------- *)
\* the method send_request is called with by each API call
MethodOf(o) ==
    CASE o = "initialize" -> "initialize"
      [] o = "query"      -> "textDocument/foldingRange"
      [] o = "shutdown"   -> "shutdown"
      [] o = "drop"       -> "shutdown"

\* json!({"jsonrpc", "id", "method", "params"}) / json!({"jsonrpc", "method", "params"})
Frame(method, id, by) == [method |-> method, id |-> id, by |-> by]

\* write_all + flush on the child's stdin: succeeds while the child holds the
\* read end of the pipe, fails (EPIPE) once it has exited
WriteSucceeds_Always(p) == TRUE

WriteSucceeds(p) == p = "running"

\* header.lines().find(starts_with("Content-Length:")) ... parse::<usize>():
\* the first Content-Length line decides
RECURSIVE ContentLength(_)
ContentLength(h) ==
    IF h = <<>> THEN "none"
    ELSE IF Head(h) = "CL" THEN "ok"
    ELSE IF Head(h) = "BADCL" THEN "bad"
    ELSE IF Head(h) = "HUGE" THEN "huge"
    ELSE ContentLength(Tail(h))

IsExpected_AnyId(message, expected) == message.id # 0

\* message.get("id").and_then(as_u64) == Some(expected_id)
IsExpected(message, expected) == message.id # 0 /\ message.id = expected

Resolve_NullIsAbsent(message) ==
    IF message.hasError THEN "err"
    ELSE IF message.hasResult /\ ~message.resultNull THEN "ok"
    ELSE "err"

Resolve_ResultFirst(message) ==
    IF message.hasResult THEN "ok" ELSE "err"

\* send_request after read_response: error field first, then result
Resolve(message) ==
    IF message.hasError THEN "err"
    ELSE IF message.hasResult THEN "ok"
    ELSE "err"

KillSignals_Always(p) == TRUE

\* Child::kill: no signal once the exit status has been collected by wait()
KillSignals(p) == p # "reaped"

InitializeProceeds_Always(r) == TRUE

\* initialize: `self.send_request("initialize", params)?` goes on only with Ok
InitializeProceeds(r) == r = "ok"

\* shutdown: `self.send_request("shutdown", json!(null))?` goes on only with Ok
ShutdownProceeds(r) == r = "ok"

\* what a skipped frame was
KindOf(message) == IF message.method # "none" THEN "notification" ELSE "other_response"

\* the marks a skipped frame leaves: its kind, and "unrecognized" for a
\* notification the client has no handling for
SkipMarks(message) ==
    {KindOf(message)} \cup
    (IF message.method \notin {"none", "$/progress"} THEN {"unrecognized"} ELSE {})

ReadExact_Peek(buf) == buf

\* read_exact(&mut content): the declared bytes leave the stream
ReadExact(buf) == Tail(buf)

HandleOther_NeedsParams(message) ==
    IF message.method = "$/progress" /\ message.params # "message_percentage"
    THEN "error" ELSE "continue"

HandleOther_RejectUnknown(message) ==
    IF message.method \in {"none", "$/progress"} THEN "continue" ELSE "error"

\* read_response on a frame that is not the awaited response: a $/progress
\* notification is printed, anything else is ignored, the loop continues
HandleOther(message) == "continue"

(* ------------------------------- Init ---------------------------------- *)
\* RustAnalyzerClient::new succeeded: the child runs, the counter is at 1
InitSession ==
    /\ request_id = 1
    /\ process = "running"
    /\ inbuf = <<>>
    /\ wire = <<>>
    /\ op = "idle"
    /\ pc = "none"
    /\ expected_id = 0
    /\ line = "none"
    /\ header = <<>>
    /\ response = NoMsg
    /\ result = "none"
    /\ ret = [op |-> "none", ok |-> TRUE]
    /\ poisoned = FALSE
    /\ unwinding = FALSE
    /\ skipped = {}
    /\ okIds = {}
    /\ sigkill = "none"
    /\ framesLeft = MaxFrames
    /\ fails = {}

\* no concurrent callers
InitCallers ==
    /\ t_pc = <<>>
    /\ t_id = <<>>
    /\ issued = <<>>

\* wait_for_ready not called
InitWaiting ==
    /\ now = 0
    /\ start = 0
    /\ max_wait_secs = 0
    /\ w_pc = "none"
    /\ probes = 0
    /\ symbols = "none"
    /\ w_ret = "none"

\* no message is being framed
InitFraming ==
    /\ f_msg = <<>>
    /\ f_stream = <<>>
    /\ f_pc = "none"
    /\ f_line = <<>>
    /\ f_header = <<>>
    /\ f_len = 0
    /\ f_out = <<>>

\* no thread shares the client
InitLocks ==
    /\ writer = 0
    /\ reader = 0
    /\ c_pc = <<>>
    /\ c_kind = <<>>
    /\ c_id = <<>>
    /\ stdin = <<>>
    /\ stdout = <<>>
    /\ answered = {}
    /\ taken = {}
    /\ got = <<>>
    /\ sawReader = <<>>

NoFile == [path |-> [kind |-> "none", n |-> 0], file_num |-> 0, current_tokens |-> 0]

\* the batch tool has no context file
InitCtx ==
    /\ context_file = NoFile
    /\ output_dir = "none"
    /\ disk = <<>>
    /\ temps = 0
    /\ x_op = "none"
    /\ x_arg = NoFile
    /\ x_ret = "none"
    /\ x_file = NoFile
    /\ used_files = <<>>
    /\ rotated = FALSE
    /\ dirs = 0

\* the batch tool has no summary cache
InitCache ==
    /\ entries = <<>>
    /\ fs = <<>>
    /\ s_op = "none"
    /\ s_path = "none"
    /\ s_hash = "none"
    /\ s_ret = "None"
    /\ s_before = <<>>

\* no action name is being parsed
InitNames ==
    /\ a_str = <<>>
    /\ a_parsed = "unset"
    /\ a_start = "unset"
    /\ a_name = <<>>
    /\ a_back = "unset"

\* a process_node call, and the one that has not been made
NodeCall(path, action) == [path |-> path, action |-> action]
NoCall == NodeCall("none", "none")

\* what a call starts from
Snapshot(cf, total, done, included, d) ==
    [context_file |-> cf, total_tokens |-> total, processed |-> done,
     included_files |-> included, disk |-> d]
NoSnapshot == Snapshot(NoFile, 0, {}, {}, <<>>)

\* the batch tool has not walked anything
InitWalk ==
    /\ tokens_of = <<>>
    /\ total_tokens = 0
    /\ processed = {}
    /\ included_files = {}
    /\ all_context_files = <<>>
    /\ n_call = NoCall
    /\ n_before = NoSnapshot
    /\ to_process = <<>>
    /\ l_pc = "none"
    /\ l_ret = "none"
    /\ l_result = "none"
    /\ action_cache = <<>>
    /\ saved = {}

\* no CacheManager
InitDb ==
    /\ doc_cache = {}
    /\ source_cache = {}
    /\ k_calls = <<>>

InitBatch == InitCtx /\ InitCache /\ InitNames /\ InitWalk /\ InitDb

\* no RestartableRustAnalyzerClient
InitRestart ==
    /\ r_pc = "none"
    /\ r_ret = "none"
    /\ r_healthy = FALSE
    /\ restarts = 0

\* new() has returned the client: it spawned once
InitAside == InitFraming /\ InitLocks /\ spawns = 1 /\ InitBatch /\ InitRestart

Init == InitSession /\ InitCallers /\ InitWaiting /\ InitAside

(* ------------------------- the owner's API calls ----------------------- *)
reading == <<line, header, response, skipped, expected_id>>
io == <<process, inbuf, wire, framesLeft, sigkill>>
other == <<callers, waiting, aside>>

\* initialize(), get_folding_ranges() ...: the call is entered
CallInitialize ==
    /\ op = "idle" /\ request_id <= MaxCalls
    /\ op' = "initialize" /\ pc' = "send_request"
    /\ UNCHANGED <<other, fails, request_id, result, ret, poisoned, unwinding, okIds, reading, io>>

CallQuery ==
    /\ op = "idle" /\ request_id <= MaxCalls
    /\ op' = "query" /\ pc' = "send_request"
    /\ UNCHANGED <<other, fails, request_id, result, ret, poisoned, unwinding, okIds, reading, io>>

CallShutdown ==
    /\ op = "idle"
    /\ op' = "shutdown" /\ pc' = "send_request"
    /\ UNCHANGED <<other, fails, request_id, result, ret, poisoned, unwinding, okIds, reading, io>>

\* the owner lets the client go out of scope
DropClient ==
    /\ op = "idle"
    /\ op' = "drop" /\ pc' = "send_request"
    /\ UNCHANGED <<other, fails, request_id, result, ret, poisoned, unwinding, okIds, reading, io>>

(* ------------------------------ send_request --------------------------- *)
\* send_request returns r to the API call it runs in
AfterRequest(r) ==
    /\ result' = r
    /\ CASE op = "query" ->
              IF r = "ok"
              THEN op' = op /\ pc' = "decode" /\ ret' = ret
              ELSE op' = "idle" /\ pc' = "none"
                   /\ ret' = [op |-> "query", ok |-> FALSE]
         [] op = "initialize" ->
              IF InitializeProceeds(r)
              THEN op' = op /\ pc' = "initialized" /\ ret' = ret
              ELSE op' = "idle" /\ pc' = "none"
                   /\ ret' = [op |-> "initialize", ok |-> FALSE]
         [] op = "shutdown" ->
              IF ShutdownProceeds(r)
              THEN op' = op /\ pc' = "exit" /\ ret' = ret
              ELSE \* `?` returns, and `self` is dropped on the way out
                   op' = "drop" /\ pc' = "send_request"
                   /\ ret' = [op |-> "shutdown", ok |-> FALSE]
         [] op = "drop" ->
              \* let _ = ...: the result is discarded
              op' = op /\ pc' = "exit" /\ ret' = ret

\* a panic on the owner thread: outside drop the stack unwinds and drops the
\* client; inside drop the panic leaves drop
Panic ==
    /\ result' = result
    /\ IF op = "drop"
       THEN op' = "panicked" /\ pc' = "none" /\ ret' = ret /\ unwinding' = unwinding
       ELSE op' = "drop" /\ pc' = "send_request" /\ unwinding' = TRUE
            /\ ret' = [op |-> op, ok |-> FALSE]

\* fetch_add, json!, send_message
SendRequest ==
    /\ pc = "send_request"
    /\ request_id' = request_id + 1
    /\ expected_id' = request_id
    /\ response' = NoMsg /\ skipped' = {} /\ line' = "none" /\ header' = <<>>
    /\ IF WriteSucceeds(process)
       THEN /\ wire' = Append(wire, Frame(MethodOf(op), request_id, op))
            /\ pc' = "lock" /\ op' = op /\ result' = "none" /\ ret' = ret
       ELSE wire' = wire /\ AfterRequest("err")
    /\ fails' = (IF WriteSucceeds(process) THEN fails ELSE fails \cup {"write"})
    /\ UNCHANGED <<other, process, inbuf, framesLeft, sigkill, poisoned, unwinding, okIds>>

\* read_response: self.reader.lock().unwrap()
ReadLock ==
    /\ pc = "lock"
    /\ IF poisoned
       THEN Panic
       ELSE pc' = "read_line" /\ UNCHANGED <<op, result, ret, unwinding>>
    /\ UNCHANGED <<other, fails, request_id, poisoned, okIds, reading, io>>


(* ------------------------------ read_response -------------------------- *)
LineKinds == {"CL", "X", "BADCL", "HUGE", "CRLF"}

\* reader.read_line(&mut line): blocks while the pipe is empty and open;
\* returns Ok(0) and leaves `line` empty ("EOF") at end of stream; returns
\* the bytes up to the next newline otherwise, or up to the end of the stream
\* ("PART": a line without its newline)
ReadLine ==
    /\ pc = "read_line"
    /\ IF inbuf = <<>>
       THEN process # "running" /\ line' = "EOF" /\ inbuf' = inbuf
       ELSE IF Head(inbuf).t \in LineKinds \cup {"PART"}
       THEN line' = Head(inbuf).t /\ inbuf' = Tail(inbuf)
       ELSE \* body bytes a failed call left unread run into the next line
            IF Len(inbuf) >= 2
            THEN /\ line' = (IF inbuf[2].t = "PART" THEN "PART" ELSE "X")
                 /\ inbuf' = Tail(Tail(inbuf))
            ELSE process # "running" /\ line' = "PART" /\ inbuf' = Tail(inbuf)
    /\ pc' = "test_line"
    /\ UNCHANGED <<other, fails, request_id, process, wire, framesLeft, sigkill, op, result, ret,
                   poisoned, unwinding, okIds, header, response, skipped, expected_id>>

\* if line == "\r\n" { break } header.push_str(&line)
TestLine ==
    /\ pc = "test_line"
    /\ IF line = "CRLF"
       THEN pc' = "parse" /\ header' = header
       ELSE /\ pc' = "read_line"
            /\ header' = (IF line = "EOF" THEN header ELSE Append(header, line))
    /\ UNCHANGED <<other, fails, request_id, op, result, ret, poisoned, unwinding, okIds, line,
                   response, skipped, expected_id, io>>

\* the Content-Length of the header block, then vec![0; content_length]:
\* no usable length is the error "Invalid LSP header"; a length above
\* isize::MAX panics ("capacity overflow") with the reader lock held
ParseLength ==
    /\ pc = "parse"
    /\ LET cl == ContentLength(header) IN
         CASE cl = "ok" ->
                pc' = "read_body" /\ UNCHANGED <<op, result, ret, unwinding, poisoned>>
           [] cl = "huge" ->
                poisoned' = TRUE /\ Panic
           [] OTHER ->
                AfterRequest("err") /\ UNCHANGED <<unwinding, poisoned>>
    /\ fails' = (IF ContentLength(header) \in {"none", "bad"}
                 THEN fails \cup {"framing"} ELSE fails)
    /\ UNCHANGED <<other, request_id, okIds, reading, io>>

\* reader.read_exact(&mut content), from_slice, and the id test: the frame
\* with the expected id is returned, any other frame is passed over
ReadBody ==
    /\ pc = "read_body"
    /\ IF inbuf = <<>>
       THEN \* blocks while the pipe is open; UnexpectedEof once it is closed
            /\ process # "running"
            /\ AfterRequest("err")
            /\ fails' = fails \cup {"framing"}
            /\ UNCHANGED <<inbuf, response, skipped, header>>
       ELSE IF Head(inbuf).t = "SHORT"
       THEN /\ inbuf' = ReadExact(inbuf)
            /\ AfterRequest("err")
            /\ fails' = fails \cup {"framing"}
            /\ UNCHANGED <<response, skipped, header>>
       ELSE /\ inbuf' = ReadExact(inbuf)
            /\ IF IsExpected(Head(inbuf).m, expected_id)
               THEN /\ response' = Head(inbuf).m
                    /\ pc' = "resolve"
                    /\ UNCHANGED <<skipped, header, op, result, ret, fails>>
               ELSE IF HandleOther(Head(inbuf).m) = "continue"
               THEN /\ skipped' = skipped \cup SkipMarks(Head(inbuf).m)
                    /\ header' = <<>>
                    /\ pc' = "read_line"
                    /\ UNCHANGED <<response, op, result, ret, fails>>
               ELSE /\ AfterRequest("err")
                    /\ fails' = fails \cup {"protocol"}
                    /\ UNCHANGED <<response, skipped, header>>
    /\ UNCHANGED <<other, request_id, process, wire, framesLeft, sigkill, poisoned,
                   unwinding, okIds, line, expected_id>>

\* send_request: bail on an error field, else the result field, else an error
ResolveResponse ==
    /\ pc = "resolve"
    /\ AfterRequest(Resolve(response))
    /\ okIds' = (IF Resolve(response) = "ok" THEN okIds \cup {expected_id} ELSE okIds)
    /\ fails' = (IF Resolve(response) = "ok" THEN fails ELSE fails \cup {"protocol"})
    /\ UNCHANGED <<other, request_id, poisoned, unwinding, reading, io>>

\* get_folding_ranges: serde_json::from_value(response), which accepts the
\* result (decoded) or fails; the session is not touched
DecodeResult(decoded) ==
    /\ op = "query" /\ pc = "decode"
    /\ op' = "idle" /\ pc' = "none"
    /\ ret' = [op |-> "query", ok |-> decoded]
    /\ UNCHANGED <<other, fails, request_id, result, poisoned, unwinding, okIds, reading, io>>

(* ------------------- send_notification, wait, kill --------------------- *)
\* send_notification("initialized" | "exit"): one frame without id, nothing
\* is read.  In initialize the response is then decoded (decoded: whether
\* serde_json::from_value accepts it); in shutdown `?` returns on failure; in
\* drop the result is discarded.
SendNotification(decoded) ==
    /\ pc \in {"initialized", "exit"}
    /\ wire' = (IF WriteSucceeds(process) THEN Append(wire, Frame(pc, 0, op)) ELSE wire)
    /\ CASE op = "initialize" ->
              /\ op' = "idle" /\ pc' = "none"
              /\ ret' = [op |-> "initialize", ok |-> (WriteSucceeds(process) /\ decoded)]
         [] op = "shutdown" ->
              IF WriteSucceeds(process)
              THEN op' = op /\ pc' = "wait" /\ ret' = ret
              ELSE op' = "drop" /\ pc' = "send_request"
                   /\ ret' = [op |-> "shutdown", ok |-> FALSE]
         [] op = "drop" ->
              op' = op /\ pc' = "kill" /\ ret' = ret
    /\ UNCHANGED <<other, fails, request_id, process, inbuf, framesLeft, sigkill, result, poisoned,
                   unwinding, okIds, reading>>

ProcessWait_NoWait ==
    /\ op = "shutdown" /\ pc = "wait"
    /\ ret' = [op |-> "shutdown", ok |-> TRUE]
    /\ op' = "drop" /\ pc' = "send_request"
    /\ UNCHANGED <<other, fails, request_id, process, inbuf, wire, framesLeft, sigkill, result,
                   poisoned, unwinding, okIds, reading>>

\* shutdown: self.process.wait()? blocks until the child has exited and
\* collects its status; Ok(()) is returned and `self` is dropped
ProcessWait ==
    /\ op = "shutdown" /\ pc = "wait"
    /\ process # "running"
    /\ process' = "reaped"
    /\ ret' = [op |-> "shutdown", ok |-> TRUE]
    /\ op' = "drop" /\ pc' = "send_request"
    /\ UNCHANGED <<other, fails, request_id, inbuf, wire, framesLeft, sigkill, result, poisoned,
                   unwinding, okIds, reading>>

\* drop: let _ = self.process.kill()
ProcessKill ==
    /\ op = "drop" /\ pc = "kill"
    /\ IF KillSignals(process)
       THEN /\ sigkill' = process
            /\ process' = (IF process = "running" THEN "exited" ELSE process)
       ELSE UNCHANGED <<sigkill, process>>
    /\ op' = "gone" /\ pc' = "none"
    /\ UNCHANGED <<other, fails, request_id, inbuf, wire, framesLeft, result, ret, poisoned,
                   unwinding, okIds, reading>>

(* ------------------------------ the server ----------------------------- *)
client == <<request_id, wire, op, pc, result, ret, poisoned, unwinding, okIds,
            sigkill, reading, fails>>

CanWrite == process = "running" /\ framesLeft > 0 /\ Len(inbuf) <= MaxPending

\* the server writes one well-formed frame
ServerSend(h, m) ==
    /\ CanWrite
    /\ inbuf' = inbuf \o h \o <<Tok("BODY", m)>>
    /\ framesLeft' = framesLeft - 1
    /\ UNCHANGED <<other, process, client>>

\* the server writes a frame whose header block has no usable length
ServerSendBad(h) ==
    /\ CanWrite
    /\ inbuf' = inbuf \o h \o <<Tok("BODY", NoMsg)>>
    /\ framesLeft' = framesLeft - 1
    /\ UNCHANGED <<other, process, client>>

\* the server exits (on `exit`, or on its own) with its output complete
ServerExit ==
    /\ process = "running"
    /\ process' = "exited"
    /\ UNCHANGED <<other, inbuf, framesLeft, client>>

\* the server dies while writing a frame
ServerDie(t) ==
    /\ CanWrite
    /\ inbuf' = inbuf \o t
    /\ framesLeft' = framesLeft - 1
    /\ process' = "exited"
    /\ UNCHANGED <<other, client>>

(* ---------------------------- specification ---------------------------- *)
Client ==
    \/ CallInitialize
    \/ CallQuery
    \/ CallShutdown
    \/ DropClient
    \/ SendRequest
    \/ ReadLock
    \/ ReadLine
    \/ TestLine
    \/ ParseLength
    \/ ReadBody
    \/ ResolveResponse
    \/ \E decoded \in BOOLEAN : DecodeResult(decoded)
    \/ \E decoded \in BOOLEAN : SendNotification(decoded)
    \/ ProcessWait
    \/ ProcessKill

Server ==
    \/ \E h \in HeaderBlocks, m \in Messages : ServerSend(h, m)
    \/ \E h \in BadHeaderBlocks : ServerSendBad(h)
    \/ ServerExit
    \/ \E t \in TruncatedFrames : ServerDie(t)

Next == Client \/ Server

Spec == Init /\ [][Next]_vars


(* ------------- a server that sends requests of its own (SpecReq) ------- *)
\* A server-originated Request: a u64 id of the server's choosing and a
\* method, no result and no error.
ServerRequests == [id : 1..MaxId, method : {"workspace/configuration"},
                   hasResult : {FALSE}, hasError : {FALSE},
                   resultNull : {FALSE}, params : {"none"}]

\* the server writes one well-formed frame holding a request of its own
ServerSendRequest(h, m) == ServerSend(h, m)

NextReq ==
    \/ Next
    \/ \E h \in HeaderBlocks, m \in ServerRequests : ServerSendRequest(h, m)

SpecReq == Init /\ [][NextReq]_vars

(* ------ progress notifications and null results in full (SpecMsg) ------ *)
\* how much of a $/progress notification is there: no params; params with a
\* token and no value; a value without a message string; a message; a
\* message and a percentage
ProgressParams == {"none", "token_only", "value_no_message", "message",
                   "message_percentage"}

ProgressNotifications == [id : {0}, method : {"$/progress"},
                          hasResult : {FALSE}, hasError : {FALSE},
                          resultNull : {FALSE}, params : ProgressParams]

\* responses whose result is JSON null, as the reply to shutdown is
NullResponses == [id : 1..MaxId, method : {"none"}, hasResult : {TRUE},
                  hasError : BOOLEAN, resultNull : {TRUE}, params : {"none"}]

\* the server writes a $/progress notification
ServerSendProgress(h, m) == ServerSend(h, m)

\* the server writes a response with a null result
ServerSendNull(h, m) == ServerSend(h, m)

\* the server writes any other response
ServerSendResponse(h, m) == ServerSend(h, m)

NextMsg ==
    \/ Client
    \/ \E m \in ProgressNotifications :
          ServerSendProgress(<<LineTok("CL"), LineTok("CRLF")>>, m)
    \/ \E m \in NullResponses : ServerSendNull(<<LineTok("CL"), LineTok("CRLF")>>, m)
    \/ \E m \in Responses : ServerSendResponse(<<LineTok("CL"), LineTok("CRLF")>>, m)
    \/ ServerExit

SpecMsg == Init /\ [][NextMsg]_vars

(* ------------------ concurrent callers of send_request ----------------- *)
Threads == 1..NThreads

InitIds ==
    /\ InitSession
    /\ t_pc = [t \in Threads |-> "start"]
    /\ t_id = [t \in Threads |-> 0]
    /\ issued = <<>>
    /\ InitWaiting
    /\ InitAside

\* let id = self.request_id.fetch_add(1, Ordering::SeqCst): one atomic step
FetchAdd(t) ==
    /\ t_pc[t] = "start"
    /\ request_id <= MaxIssued
    /\ t_id' = [t_id EXCEPT ![t] = request_id]
    /\ request_id' = request_id + 1
    /\ issued' = Append(issued, request_id)
    /\ t_pc' = [t_pc EXCEPT ![t] = "send"]
    /\ UNCHANGED <<waiting, aside, fails, process, inbuf, wire, op, pc, expected_id, line, header,
                   response, result, ret, poisoned, unwinding, skipped, okIds,
                   sigkill, framesLeft>>

SendMessage_Rollback(t) ==
    /\ t_pc[t] = "send"
    /\ IF WriteSucceeds(process)
       THEN /\ wire' = Append(wire, Frame("textDocument/foldingRange", t_id[t], "query"))
            /\ t_pc' = [t_pc EXCEPT ![t] = "read"]
            /\ request_id' = request_id
       ELSE /\ wire' = wire
            /\ t_pc' = [t_pc EXCEPT ![t] = "start"]
            /\ request_id' = request_id - 1
    /\ UNCHANGED <<waiting, aside, fails, t_id, issued, process, inbuf, op, pc, expected_id,
                   line, header, response, result, ret, poisoned, unwinding, skipped,
                   okIds, sigkill, framesLeft>>

\* self.send_message(&request)?: the frame is written under the writer lock,
\* or the error is returned to the caller; the counter is not touched
SendMessage(t) ==
    /\ t_pc[t] = "send"
    /\ IF WriteSucceeds(process)
       THEN /\ wire' = Append(wire, Frame("textDocument/foldingRange", t_id[t], "query"))
            /\ t_pc' = [t_pc EXCEPT ![t] = "read"]
       ELSE /\ wire' = wire
            /\ t_pc' = [t_pc EXCEPT ![t] = "start"]
    /\ UNCHANGED <<waiting, aside, fails, request_id, t_id, issued, process, inbuf, op, pc, expected_id,
                   line, header, response, result, ret, poisoned, unwinding, skipped,
                   okIds, sigkill, framesLeft>>

\* read_response and the rest of send_request return (neither reads nor
\* writes request_id)
ReadReturns(t) ==
    /\ t_pc[t] = "read"
    /\ t_pc' = [t_pc EXCEPT ![t] = "start"]
    /\ UNCHANGED <<waiting, aside, session, t_id, issued>>

NextIds ==
    \/ \E t \in Threads : FetchAdd(t)
    \/ \E t \in Threads : SendMessage(t)
    \/ \E t \in Threads : ReadReturns(t)
    \/ ServerExit

SpecIds == InitIds /\ [][NextIds]_vars

(* ----------------------------- wait_for_ready -------------------------- *)
\* units of the clock in one second
TicksPerSecond == 10
\* thread::sleep(Duration::from_millis(100)), in units of the clock
SleepTicks == 1

\* Duration::from_secs(max_wait_secs)
MaxDuration(secs) == secs * TicksPerSecond

TimedOut_AtDeadline(elapsed, max_duration) == elapsed >= max_duration

\* start.elapsed() > max_duration
TimedOut(elapsed, max_duration) == elapsed > max_duration

\* what document_symbols can return: a flat or nested symbol list, empty or
\* not, Ok(None) for a result that does not decode, or an error
ProbeOutcomes == {"flat", "nested", "flat_empty", "nested_empty", "undecodable", "error"}

IsReady_AnyList(outcome) ==
    outcome \in {"flat", "nested", "flat_empty", "nested_empty"}

\* `if let Ok(Some(symbols))` with a non-empty Flat or Nested list
IsReady(outcome) == outcome \in {"flat", "nested"}

InitWait ==
    /\ InitSession
    /\ InitCallers
    /\ InitAside
    /\ now \in 0..MaxProbeTicks
    /\ start = 0
    /\ max_wait_secs = 0
    /\ w_pc = "none"
    /\ probes = 0
    /\ symbols = "none"
    /\ w_ret = "none"

\* wait_for_ready(file_path, max_wait_secs): let start = Instant::now()
CallWaitForReady(secs) ==
    /\ w_pc = "none"
    /\ start' = now
    /\ max_wait_secs' = secs
    /\ w_pc' = "probe"
    /\ UNCHANGED <<session, callers, aside, now, probes, symbols, w_ret>>

\* the longest a probe that is answered, the check and the sleep after it take
Grace == MaxProbeTicks + SleepTicks + MaxOversleep

\* the clock is followed until the deadline and the grace have passed
Horizon(secs) == MaxDuration(secs) + Grace + 1

\* self.document_symbols(file_path) is still inside read_response, waiting
\* for a frame (reader.read_line blocks); time passes
ProbeBlocked ==
    /\ w_pc = "probe"
    /\ now - start < Horizon(max_wait_secs)
    /\ now' = now + 1
    /\ UNCHANGED <<session, callers, aside, start, max_wait_secs, w_pc, probes, symbols, w_ret>>

Probe_Propagates(outcome, d) ==
    /\ w_pc = "probe"
    /\ now' = now + d
    /\ probes' = probes + 1
    /\ symbols' = outcome
    /\ IF IsReady(outcome)
       THEN w_pc' = "done" /\ w_ret' = "ok"
       ELSE IF outcome = "error"
       THEN w_pc' = "done" /\ w_ret' = "error"
       ELSE w_pc' = "check" /\ w_ret' = w_ret
    /\ UNCHANGED <<session, callers, aside, start, max_wait_secs>>

\* self.document_symbols(file_path), which takes d units of time, and the
\* match on what it returned
Probe(outcome, d) ==
    /\ w_pc = "probe"
    /\ now' = now + d
    /\ probes' = probes + 1
    /\ symbols' = outcome
    /\ IF IsReady(outcome)
       THEN w_pc' = "done" /\ w_ret' = "ok"
       ELSE w_pc' = "check" /\ w_ret' = w_ret
    /\ UNCHANGED <<session, callers, aside, start, max_wait_secs>>

\* if start.elapsed() > max_duration { return Err(Timeout ...) }
CheckDeadline ==
    /\ w_pc = "check"
    /\ IF TimedOut(now - start, MaxDuration(max_wait_secs))
       THEN w_pc' = "done" /\ w_ret' = "timeout"
       ELSE w_pc' = "sleep" /\ w_ret' = w_ret
    /\ UNCHANGED <<session, callers, aside, now, start, max_wait_secs, probes, symbols>>

\* std::thread::sleep(Duration::from_millis(100)): at least that long
Sleep(d) ==
    /\ w_pc = "sleep"
    /\ now' = now + d
    /\ w_pc' = "probe"
    /\ UNCHANGED <<session, callers, aside, start, max_wait_secs, probes, symbols, w_ret>>

NextWait ==
    \/ \E secs \in 0..MaxWaitSecs : CallWaitForReady(secs)
    \/ \E outcome \in ProbeOutcomes, d \in 0..MaxProbeTicks : Probe(outcome, d)
    \/ ProbeBlocked
    \/ CheckDeadline
    \/ \E d \in SleepTicks..(SleepTicks + MaxOversleep) : Sleep(d)

SpecWait == InitWait /\ [][NextWait]_vars

(* ---------------- one message framed and read back (SpecFrame) --------- *)
\* characters by the length of their UTF-8 encoding: 1 to 4 bytes
Chars == {"a", "e_acute", "euro", "grin"}

Utf8Len(c) == CASE c = "a" -> 1 [] c = "e_acute" -> 2 [] c = "euro" -> 3 [] c = "grin" -> 4

\* a byte of the stream: a piece of header text, a decimal digit, or the
\* i-th byte of the encoding of character c
B(k, c, i) == [k |-> k, c |-> c, i |-> i]
CRLF == B("text", "\r\n", 0)
Digit(d) == B("digit", "0-9", d)

\* the sequences over S of length 0..n
SeqsUpTo(S, n) == UNION {[1..k -> S] : k \in 0..n}

\* the UTF-8 bytes of one character
Utf8(c) == [i \in 1..Utf8Len(c) |-> B("byte", c, i)]

\* serde_json::to_string: the text as UTF-8 bytes, non-ASCII left as it is
RECURSIVE ToBytes(_)
ToBytes(msg) == IF msg = <<>> THEN <<>> ELSE Utf8(Head(msg)) \o ToBytes(Tail(msg))

\* format!("{}", n) for a usize
RECURSIVE ToDecimal(_)
ToDecimal(n) ==
    IF n < 10 THEN <<Digit(n)>> ELSE ToDecimal(n \div 10) \o <<Digit(n % 10)>>

ContentLen_Chars(msg) == Len(msg)

\* content.len(): the length of the String in bytes
ContentLen(msg) == Len(ToBytes(msg))

\* format!("Content-Length: {}\r\n\r\n", content.len()), then the content
EncodeFrame(msg) ==
    <<B("text", "Content-Length:", 0), B("text", " ", 0)>> \o ToDecimal(ContentLen(msg))
        \o <<CRLF, CRLF>> \o ToBytes(msg)

\* read_line: the bytes up to and including the first line end (all of them
\* when there is none)
RECURSIVE LineEnd(_, _)
LineEnd(bytes, i) ==
    IF i > Len(bytes) THEN Len(bytes)
    ELSE IF bytes[i] = CRLF THEN i ELSE LineEnd(bytes, i + 1)

\* str::trim on the text after the colon
RECURSIVE TrimStart(_)
TrimStart(bytes) ==
    IF bytes # <<>> /\ Head(bytes).k = "text" /\ Head(bytes).c \in {" ", "\r\n"}
    THEN TrimStart(Tail(bytes)) ELSE bytes

RECURSIVE TrimEnd(_)
TrimEnd(bytes) ==
    IF bytes # <<>> /\ bytes[Len(bytes)].k = "text" /\ bytes[Len(bytes)].c \in {" ", "\r\n"}
    THEN TrimEnd(SubSeq(bytes, 1, Len(bytes) - 1)) ELSE bytes

\* str::parse::<usize>: decimal digits only, at least one; -1 stands for Err
RECURSIVE ParseUsize(_, _)
ParseUsize(bytes, acc) ==
    IF bytes = <<>> THEN acc
    ELSE IF Head(bytes).k # "digit" THEN -1
    ELSE ParseUsize(Tail(bytes), acc * 10 + Head(bytes).i)

HeaderLength_FirstLine(lines) ==
    IF lines # <<>> /\ Head(lines) # <<>>
       /\ Head(Head(lines)) = B("text", "Content-Length:", 0)
    THEN ParseUsize(TrimEnd(TrimStart(Tail(Head(lines)))), 0)
    ELSE -1

\* header.lines().find(starts_with("Content-Length:")) .split(':').nth(1)
\* .trim().parse::<usize>(); -1 stands for "Invalid LSP header"
RECURSIVE HeaderLength(_)
HeaderLength(lines) ==
    IF lines = <<>> THEN -1
    ELSE IF Head(lines) # <<>> /\ Head(Head(lines)) = B("text", "Content-Length:", 0)
    THEN LET field == TrimEnd(TrimStart(Tail(Head(lines))))
         IN  IF field = <<>> THEN -1 ELSE ParseUsize(field, 0)
    ELSE HeaderLength(Tail(lines))

\* serde_json::from_slice: the bytes must be whole UTF-8 encodings
RECURSIVE FromBytes(_)
FromBytes(bytes) ==
    IF bytes = <<>> THEN <<>>
    ELSE LET c == Head(bytes).c
             w == IF Head(bytes).k = "byte" THEN Utf8Len(c) ELSE 0
         IN  IF /\ w > 0
                /\ Len(bytes) >= w
                /\ \A i \in 1..w : bytes[i] = B("byte", c, i)
             THEN LET rest == FromBytes(SubSeq(bytes, w + 1, Len(bytes)))
                  IN  IF rest = <<"invalid">> THEN rest ELSE <<c>> \o rest
             ELSE <<"invalid">>

InitFrame ==
    /\ InitSession /\ InitCallers /\ InitWaiting /\ InitLocks /\ spawns = 1 /\ InitBatch
    /\ InitRestart
    /\ f_msg \in SeqsUpTo(Chars, MaxChars)
    /\ f_stream = <<>>
    /\ f_pc = "send"
    /\ f_line = <<>>
    /\ f_header = <<>>
    /\ f_len = 0
    /\ f_out = <<>>

\* send_message: header and content written, flushed
FrameSend ==
    /\ f_pc = "send"
    /\ f_stream' = EncodeFrame(f_msg)
    /\ f_pc' = "read_line"
    /\ UNCHANGED <<session, callers, waiting, locks, spawns, batch, restart, f_msg, f_line, f_header, f_len, f_out>>

\* reader.read_line(&mut line)
FrameReadLine ==
    /\ f_pc = "read_line"
    /\ f_stream # <<>>
    /\ LET n == LineEnd(f_stream, 1)
       IN  /\ f_line' = SubSeq(f_stream, 1, n)
           /\ f_stream' = SubSeq(f_stream, n + 1, Len(f_stream))
    /\ f_pc' = "test_line"
    /\ UNCHANGED <<session, callers, waiting, locks, spawns, batch, restart, f_msg, f_header, f_len, f_out>>

\* if line == "\r\n" { break } header.push_str(&line)
FrameTestLine ==
    /\ f_pc = "test_line"
    /\ IF f_line = <<CRLF>>
       THEN f_pc' = "parse" /\ f_header' = f_header
       ELSE f_pc' = "read_line" /\ f_header' = Append(f_header, f_line)
    /\ UNCHANGED <<session, callers, waiting, locks, spawns, batch, restart, f_msg, f_stream, f_line, f_len, f_out>>

\* the Content-Length is parsed out of the header
FrameParse ==
    /\ f_pc = "parse"
    /\ f_len' = HeaderLength(f_header)
    /\ f_pc' = (IF HeaderLength(f_header) < 0 THEN "error" ELSE "read_body")
    /\ UNCHANGED <<session, callers, waiting, locks, spawns, batch, restart, f_msg, f_stream, f_line, f_header, f_out>>

\* reader.read_exact(&mut content) and serde_json::from_slice(&content)
FrameReadBody ==
    /\ f_pc = "read_body"
    /\ Len(f_stream) >= f_len
    /\ f_out' = FromBytes(SubSeq(f_stream, 1, f_len))
    /\ f_stream' = SubSeq(f_stream, f_len + 1, Len(f_stream))
    /\ f_pc' = (IF FromBytes(SubSeq(f_stream, 1, f_len)) = <<"invalid">>
                THEN "error" ELSE "done")
    /\ UNCHANGED <<session, callers, waiting, locks, spawns, batch, restart, f_msg, f_line, f_header, f_len>>

NextFrame ==
    \/ FrameSend
    \/ FrameReadLine
    \/ FrameTestLine
    \/ FrameParse
    \/ FrameReadBody

SpecFrame == InitFrame /\ [][NextFrame]_vars

(* ------- frames with more header lines, read back (SpecHeaders) -------- *)
\* a header line that is not Content-Length, as a server may send
OtherHeader ==
    <<B("text", "Content-Type:", 0), B("text", " ", 0),
      B("text", "application/vscode-jsonrpc; charset=utf-8", 0), CRLF>>

\* n such lines
RECURSIVE OtherHeaders(_)
OtherHeaders(n) == IF n = 0 THEN <<>> ELSE OtherHeader \o OtherHeaders(n - 1)

\* the frame of msg with n header lines before the Content-Length line and
\* k after it
FrameWithHeaders(msg, n, k) ==
    OtherHeaders(n)
        \o <<B("text", "Content-Length:", 0), B("text", " ", 0)>>
        \o ToDecimal(ContentLen(msg)) \o <<CRLF>>
        \o OtherHeaders(k) \o <<CRLF>> \o ToBytes(msg)

\* the server writes the frame of f_msg to the child's stdout
FrameServerSend(n, k) ==
    /\ f_pc = "send"
    /\ f_stream' = FrameWithHeaders(f_msg, n, k)
    /\ f_pc' = "read_line"
    /\ UNCHANGED <<session, callers, waiting, locks, spawns, batch, restart, f_msg, f_line,
                   f_header, f_len, f_out>>

NextHeaders ==
    \/ \E n, k \in 0..MaxExtra : FrameServerSend(n, k)
    \/ FrameReadLine
    \/ FrameTestLine
    \/ FrameParse
    \/ FrameReadBody

SpecHeaders == InitFrame /\ [][NextHeaders]_vars

(* ------------- threads sharing the client: the two locks (SpecConc) ---- *)
sessionRest == <<io, reading, op, pc, result, ret, poisoned, unwinding, okIds, fails>>
apart == <<sessionRest, callers, waiting, framing, spawns, batch, restart>>

\* a chunk written by one write_all: the header or the content of the
\* message thread t sends
Chunk(part, t) == [part |-> part, of |-> t]

MutexFree_Always(holder) == TRUE

\* Mutex::lock returns once no thread holds the mutex
MutexFree(holder) == holder = 0

WriterAvailable_NeedsReader(w, r) == MutexFree(w) /\ MutexFree(r)

\* send_message takes self.writer and nothing else
WriterAvailable(w, r) == MutexFree(w)

Consume_Requeue(frames) == Tail(frames) \o <<Head(frames)>>

\* a frame read_response has read is gone from the stream
Consume(frames) == Tail(frames)

InitConc ==
    /\ InitSession /\ InitCallers /\ InitWaiting /\ InitFraming /\ spawns = 1 /\ InitBatch
    /\ InitRestart
    /\ writer = 0
    /\ reader = 0
    /\ c_pc = [t \in Threads |-> "start"]
    /\ c_kind = [t \in Threads |-> "none"]
    /\ c_id = [t \in Threads |-> 0]
    /\ stdin = <<>>
    /\ stdout = <<>>
    /\ answered = {}
    /\ taken = {}
    /\ got = [t \in Threads |-> 0]
    /\ sawReader = [t \in Threads |-> FALSE]

\* send_request: let id = self.request_id.fetch_add(1, SeqCst), then send_message
StartRequest(t) ==
    /\ c_pc[t] = "start"
    /\ c_id' = [c_id EXCEPT ![t] = request_id]
    /\ request_id' = request_id + 1
    /\ c_kind' = [c_kind EXCEPT ![t] = "request"]
    /\ c_pc' = [c_pc EXCEPT ![t] = "lock_writer"]
    /\ UNCHANGED <<apart, writer, reader, stdin, stdout, answered, taken, got, sawReader>>

StartNotification_TakesId(t) ==
    /\ c_pc[t] = "start"
    /\ request_id' = request_id + 1
    /\ c_kind' = [c_kind EXCEPT ![t] = "notification"]
    /\ c_pc' = [c_pc EXCEPT ![t] = "lock_writer"]
    /\ UNCHANGED <<apart, writer, reader, c_id, stdin, stdout, answered, taken,
                   got, sawReader>>

\* send_notification: no id, then send_message
StartNotification(t) ==
    /\ c_pc[t] = "start"
    /\ c_kind' = [c_kind EXCEPT ![t] = "notification"]
    /\ c_pc' = [c_pc EXCEPT ![t] = "lock_writer"]
    /\ UNCHANGED <<apart, request_id, writer, reader, c_id, stdin, stdout, answered, taken,
                   got, sawReader>>

\* send_message: let mut writer = self.writer.lock().unwrap()
LockWriter(t) ==
    /\ c_pc[t] = "lock_writer"
    /\ WriterAvailable(writer, reader)
    /\ writer' = t
    /\ sawReader' = [sawReader EXCEPT ![t] = reader # 0]
    /\ c_pc' = [c_pc EXCEPT ![t] = "write_header"]
    /\ UNCHANGED <<apart, request_id, reader, c_kind, c_id, stdin, stdout, answered, taken, got>>

\* writer.write_all(header.as_bytes())
WriteHeader(t) ==
    /\ c_pc[t] = "write_header"
    /\ stdin' = Append(stdin, Chunk("header", t))
    /\ c_pc' = [c_pc EXCEPT ![t] = "write_content"]
    /\ UNCHANGED <<apart, request_id, writer, reader, c_kind, c_id, stdout, answered, taken,
                   got, sawReader>>

\* writer.write_all(content.as_bytes())
WriteContent(t) ==
    /\ c_pc[t] = "write_content"
    /\ stdin' = Append(stdin, Chunk("content", t))
    /\ c_pc' = [c_pc EXCEPT ![t] = "flush"]
    /\ UNCHANGED <<apart, request_id, writer, reader, c_kind, c_id, stdout, answered, taken,
                   got, sawReader>>

\* writer.flush(), and the guard is dropped as send_message returns; a
\* request goes on to read_response, a notification is done
Flush(t) ==
    /\ c_pc[t] = "flush"
    /\ writer' = (IF writer = t THEN 0 ELSE writer)
    /\ c_pc' = [c_pc EXCEPT ![t] = IF c_kind[t] = "request" THEN "lock_reader" ELSE "done"]
    /\ UNCHANGED <<apart, request_id, reader, c_kind, c_id, stdin, stdout, answered, taken,
                   got, sawReader>>

\* read_response: let mut reader = self.reader.lock().unwrap()
LockReader(t) ==
    /\ c_pc[t] = "lock_reader"
    /\ MutexFree(reader)
    /\ reader' = t
    /\ c_pc' = [c_pc EXCEPT ![t] = "read"]
    /\ UNCHANGED <<apart, request_id, writer, c_kind, c_id, stdin, stdout, answered, taken,
                   got, sawReader>>

\* read_response: one iteration of the loop on a whole frame; it blocks while
\* the stream is empty. The matching response is returned and the guard
\* dropped; any other frame is passed over
ReadFrame(t) ==
    /\ c_pc[t] = "read"
    /\ stdout # <<>>
    /\ stdout' = Consume(stdout)
    /\ IF IsExpected([id |-> Head(stdout)], c_id[t])
       THEN /\ got' = [got EXCEPT ![t] = Head(stdout)]
            /\ reader' = (IF reader = t THEN 0 ELSE reader)
            /\ c_pc' = [c_pc EXCEPT ![t] = "done"]
            /\ taken' = taken
       ELSE /\ taken' = taken \cup {Head(stdout)}
            /\ UNCHANGED <<got, reader, c_pc>>
    /\ UNCHANGED <<apart, request_id, writer, c_kind, c_id, stdin, answered, sawReader>>

\* rust-analyzer answers a request it has received whole, once
ServerAnswer(t) ==
    /\ c_kind[t] = "request"
    /\ c_pc[t] \in {"lock_reader", "read", "done"}
    /\ c_id[t] \notin answered
    /\ answered' = answered \cup {c_id[t]}
    /\ stdout' = Append(stdout, c_id[t])
    /\ UNCHANGED <<apart, request_id, writer, reader, c_pc, c_kind, c_id, stdin, taken, got,
                   sawReader>>

NextConc ==
    \/ \E t \in Threads : StartRequest(t)
    \/ \E t \in Threads : StartNotification(t)
    \/ \E t \in Threads : LockWriter(t)
    \/ \E t \in Threads : WriteHeader(t)
    \/ \E t \in Threads : WriteContent(t)
    \/ \E t \in Threads : Flush(t)
    \/ \E t \in Threads : LockReader(t)
    \/ \E t \in Threads : ReadFrame(t)
    \/ \E t \in Threads : ServerAnswer(t)

SpecConc == InitConc /\ [][NextConc]_vars

(* ------------------- construction, then the session (SpecNew) --------- *)
\* RustAnalyzerClient::new has been called and has not spawned yet
InitNew ==
    /\ request_id = 1
    /\ process = "none"
    /\ inbuf = <<>>
    /\ wire = <<>>
    /\ op = "new"
    /\ pc = "none"
    /\ expected_id = 0
    /\ line = "none"
    /\ header = <<>>
    /\ response = NoMsg
    /\ result = "none"
    /\ ret = [op |-> "none", ok |-> TRUE]
    /\ poisoned = FALSE
    /\ unwinding = FALSE
    /\ skipped = {}
    /\ okIds = {}
    /\ sigkill = "none"
    /\ framesLeft = MaxFrames
    /\ fails = {}
    /\ InitCallers /\ InitWaiting /\ InitFraming /\ InitLocks /\ InitBatch /\ InitRestart
    /\ spawns = 0

New_Retry(launched) ==
    /\ op = "new"
    /\ spawns < 3
    /\ spawns' = spawns + 1
    /\ IF launched
       THEN op' = "idle" /\ process' = "running" /\ ret' = [op |-> "new", ok |-> TRUE]
       ELSE op' = op /\ process' = process /\ ret' = ret
    /\ UNCHANGED <<callers, waiting, framing, locks, batch, restart, fails, request_id, result,
                   poisoned, unwinding, okIds, reading, inbuf, wire, framesLeft, sigkill, pc>>

\* Command::new("rust-analyzer")...spawn().context(..)?: the child runs and
\* the client is built around it, or the error is returned and no
\* RustAnalyzerClient exists
New(launched) ==
    /\ op = "new"
    /\ spawns' = spawns + 1
    /\ IF launched
       THEN op' = "idle" /\ process' = "running" /\ ret' = [op |-> "new", ok |-> TRUE]
       ELSE op' = "no_client" /\ process' = process /\ ret' = [op |-> "new", ok |-> FALSE]
    /\ UNCHANGED <<callers, waiting, framing, locks, batch, restart, fails, request_id, result,
                   poisoned, unwinding, okIds, reading, inbuf, wire, framesLeft, sigkill, pc>>

NextNew ==
    \/ \E launched \in BOOLEAN : New(launched)
    \/ Next

SpecNew == InitNew /\ [][NextNew]_vars

(* ------- RestartableRustAnalyzerClient: health and restart (SpecRestart) *)
\* is_healthy(): the server process of the client is running
IsHealthy(p) == p = "running"

\* RestartableRustAnalyzerClient::new(project_root) is entered
RestartableNew ==
    /\ r_pc = "none" /\ op = "new"
    /\ r_pc' = "starting"
    /\ UNCHANGED <<session, callers, waiting, framing, locks, spawns, batch,
                   r_ret, r_healthy, restarts>>

\* it creates its client with RustAnalyzerClient::new
Construct(launched) ==
    /\ r_pc \in {"starting", "restarting"}
    /\ New(launched)

\* and initializes the client it created
RestartInitialize ==
    /\ r_pc \in {"starting", "restarting"}
    /\ ret = [op |-> "new", ok |-> TRUE]
    /\ CallInitialize

\* the client is created and initialized: the restartable client holds it
Started ==
    /\ r_pc \in {"starting", "restarting"}
    /\ op = "idle" /\ ret = [op |-> "initialize", ok |-> TRUE]
    /\ r_pc' = "ready"
    /\ UNCHANGED <<session, callers, waiting, framing, locks, spawns, batch,
                   r_ret, r_healthy, restarts>>

\* creating or initializing the client failed: the error is returned
StartFailed ==
    /\ r_pc \in {"starting", "restarting"}
    /\ \/ op = "no_client"
       \/ op = "idle" /\ ret = [op |-> "initialize", ok |-> FALSE]
    /\ r_pc' = "failed"
    /\ r_ret' = "err"
    /\ UNCHANGED <<session, callers, waiting, framing, locks, spawns, batch,
                   r_healthy, restarts>>

\* get_or_restart(): a healthy client is returned; an unhealthy one is
\* dropped, to be replaced by a new one
GetOrRestart ==
    /\ r_pc = "ready" /\ op = "idle"
    /\ IF IsHealthy(process)
       THEN /\ r_ret' = "client"
            /\ r_healthy' = IsHealthy(process)
            /\ UNCHANGED <<session, r_pc, restarts>>
       ELSE /\ restarts < MaxRestarts
            /\ r_pc' = "dropping"
            /\ restarts' = restarts + 1
            /\ op' = "drop" /\ pc' = "send_request"
            /\ UNCHANGED <<r_ret, r_healthy, fails, request_id, result, ret, poisoned,
                           unwinding, okIds, reading, io>>
    /\ UNCHANGED <<callers, waiting, framing, locks, spawns, batch>>

\* the old client is gone: the new one is about to be created
Respawn ==
    /\ r_pc = "dropping" /\ op = "gone"
    /\ r_pc' = "restarting"
    /\ request_id' = 1
    /\ process' = "none"
    /\ inbuf' = <<>>
    /\ wire' = <<>>
    /\ op' = "new"
    /\ pc' = "none"
    /\ expected_id' = 0
    /\ line' = "none"
    /\ header' = <<>>
    /\ response' = NoMsg
    /\ result' = "none"
    /\ ret' = [op |-> "none", ok |-> TRUE]
    /\ poisoned' = FALSE
    /\ unwinding' = FALSE
    /\ skipped' = {}
    /\ okIds' = {}
    /\ sigkill' = "none"
    /\ framesLeft' = MaxFrames
    /\ fails' = {}
    /\ UNCHANGED <<callers, waiting, framing, locks, spawns, batch, r_ret, r_healthy,
                   restarts>>

\* the calls the restartable client makes run as they do in any session
RestartSteps ==
    \/ SendRequest
    \/ ReadLock
    \/ ReadLine
    \/ TestLine
    \/ ParseLength
    \/ ReadBody
    \/ ResolveResponse
    \/ \E decoded \in BOOLEAN : SendNotification(decoded)
    \/ ProcessKill

NextRestart ==
    \/ RestartableNew
    \/ \E launched \in BOOLEAN : Construct(launched)
    \/ RestartInitialize
    \/ Started
    \/ StartFailed
    \/ GetOrRestart
    \/ Respawn
    \/ RestartSteps
    \/ Server

SpecRestart == InitNew /\ [][NextRestart]_vars

(* --------------- context files and their rotation (SpecCtx) ------------ *)
lsp == <<session, callers, waiting, framing, locks, spawns, restart>>
elsewhere == <<lsp, walk, db>>

\* pub const CLAUDE_TOKEN_LIMIT: usize = 20000
CLAUDE_TOKEN_LIMIT == 20000

\* let header_tokens = 200
HeaderTokens == 200

\* the five variants of Action
Actions == {"Read", "Exclude", "Enter", "Summarize", "Stats"}

\* the token counts a context file starts with: none, and the counts around
\* the limit less a header and around the limit
TokenValues ==
    {0} \cup ((CLAUDE_TOKEN_LIMIT - HeaderTokens - Margin)..(CLAUDE_TOKEN_LIMIT - HeaderTokens + Margin))
        \cup ((CLAUDE_TOKEN_LIMIT - Margin)..(CLAUDE_TOKEN_LIMIT + Margin))

\* create_context_file: out_dir.join("context-NNN.txt"), or a fresh temporary file
FilePath(file_num, out, k) ==
    IF out = "some" THEN [kind |-> "out", n |-> file_num] ELSE [kind |-> "tmp", n |-> k + 1]

\* create_context_file: File::create truncates, then the five header lines
Preamble(file_num) == [piece |-> "preamble", part |-> file_num, stats |-> FALSE]

\* the ContextFile create_context_file returns
CreateContextFile(file_num, out, k) ==
    [path |-> FilePath(file_num, out, k), file_num |-> file_num, current_tokens |-> 0]

\* the file system after create_context_file
DiskAfterCreate(d, file_num, out, k) ==
    [p \in DOMAIN d \cup {FilePath(file_num, out, k)} |->
        IF p = FilePath(file_num, out, k) THEN <<Preamble(file_num)>> ELSE d[p]]

UnderLimit_Inclusive(tokens) == tokens <= CLAUDE_TOKEN_LIMIT

\* get_or_rotate_file: current_file.current_tokens < CLAUDE_TOKEN_LIMIT
UnderLimit(tokens) == tokens < CLAUDE_TOKEN_LIMIT

\* get_or_rotate_file, when the file creation succeeds
GetOrRotateFile(current_file, out, k) ==
    IF UnderLimit(current_file.current_tokens)
    THEN current_file
    ELSE CreateContextFile(current_file.file_num + 1, out, k)

\* process_directory_content: current_tokens + header_tokens > CLAUDE_TOKEN_LIMIT
HeaderExceeds(tokens) == tokens + HeaderTokens > CLAUDE_TOKEN_LIMIT

\* the "## DIRECTORY" header, with the statistics for Action::Stats when
\* dir_info has the directory
DirectoryHeader(action, hasInfo) ==
    [piece |-> "directory", part |-> 0, stats |-> (action = "Stats" /\ hasInfo)]

\* append_to_file
DiskAfterAppend(d, path, piece) == [d EXCEPT ![path] = Append(@, piece)]

\* a context file made by create_context_file, with the tokens processing
\* has added to it since
InitCtxFile ==
    /\ InitSession /\ InitCallers /\ InitWaiting /\ InitFraming /\ InitLocks /\ spawns = 1
    /\ InitRestart /\ InitWalk /\ InitDb
    /\ InitCache /\ InitNames
    /\ output_dir \in {"some", "none"}
    /\ temps = (IF output_dir = "some" THEN 0 ELSE 1)
    /\ \E n \in 1..MaxFileNum, tokens \in TokenValues :
          context_file = [CreateContextFile(n, output_dir, 0) EXCEPT !.current_tokens = tokens]
    /\ disk = [p \in {context_file.path} |-> <<Preamble(context_file.file_num)>>]
    /\ x_op = "none"
    /\ x_arg = NoFile
    /\ x_ret = "none"
    /\ x_file = NoFile
    /\ used_files = <<>>
    /\ rotated = FALSE
    /\ dirs = 0

\* get_or_rotate_file(&context_file, ..): the file itself under the limit,
\* else a new file, or the error of its creation
CallGetOrRotateFile(created) ==
    /\ dirs < MaxDirs
    /\ dirs' = dirs + 1
    /\ x_op' = "get_or_rotate_file"
    /\ x_arg' = context_file
    /\ used_files' = <<>>
    /\ IF UnderLimit(context_file.current_tokens)
       THEN /\ x_ret' = "ok"
            /\ x_file' = GetOrRotateFile(context_file, output_dir, temps)
            /\ rotated' = FALSE
            /\ UNCHANGED <<disk, temps>>
       ELSE IF created
       THEN /\ x_ret' = "ok"
            /\ x_file' = GetOrRotateFile(context_file, output_dir, temps)
            /\ rotated' = TRUE
            /\ disk' = DiskAfterCreate(disk, context_file.file_num + 1, output_dir, temps)
            /\ temps' = (IF output_dir = "some" THEN temps ELSE temps + 1)
       ELSE /\ x_ret' = "err"
            /\ x_file' = NoFile
            /\ rotated' = FALSE
            /\ UNCHANGED <<disk, temps>>
    /\ UNCHANGED <<elsewhere, cache, names, context_file, output_dir>>

\* process_directory_content(dir_path, dir_info, &mut context_file, action, ..)
ProcessDirectoryContent(action, hasInfo, created, appended) ==
    /\ dirs < MaxDirs
    /\ dirs' = dirs + 1
    /\ x_op' = "process_directory_content"
    /\ x_arg' = context_file
    /\ x_file' = NoFile
    /\ LET asked == HeaderExceeds(context_file.current_tokens)
           creates == asked /\ ~UnderLimit(context_file.current_tokens)
           current_file == IF asked
                           THEN GetOrRotateFile(context_file, output_dir, temps)
                           ELSE context_file
       IN  IF creates /\ ~created
           THEN \* get_or_rotate_file(..)? returns the error
                /\ x_ret' = "err"
                /\ used_files' = <<>>
                /\ rotated' = FALSE
                /\ UNCHANGED <<context_file, disk, temps>>
           ELSE /\ rotated' = creates
                /\ temps' = (IF creates /\ output_dir = "none" THEN temps + 1 ELSE temps)
                /\ IF appended
                   THEN /\ x_ret' = "ok"
                        /\ used_files' = (IF asked THEN <<context_file, current_file>>
                                                   ELSE <<context_file>>)
                        /\ disk' = DiskAfterAppend(
                                IF creates
                                THEN DiskAfterCreate(disk, context_file.file_num + 1,
                                                     output_dir, temps)
                                ELSE disk,
                                current_file.path, DirectoryHeader(action, hasInfo))
                        /\ context_file' =
                               [current_file EXCEPT !.current_tokens = @ + HeaderTokens]
                   ELSE \* append_to_file(..)? returns the error
                        /\ x_ret' = "err"
                        /\ used_files' = <<>>
                        /\ disk' = (IF creates
                                    THEN DiskAfterCreate(disk, context_file.file_num + 1,
                                                         output_dir, temps)
                                    ELSE disk)
                        /\ context_file' = context_file
    /\ UNCHANGED <<elsewhere, cache, names, output_dir>>

NextCtx ==
    \/ \E created \in BOOLEAN : CallGetOrRotateFile(created)
    \/ \E action \in Actions, hasInfo, created, appended \in BOOLEAN :
          ProcessDirectoryContent(action, hasInfo, created, appended)

SpecCtx == InitCtxFile /\ [][NextCtx]_vars

(* ------------------------ the summary cache (SpecCache) ---------------- *)
\* the files summaries are kept for
Files == {"f1", "f2"}

\* the spellings of a file's path: its canonical path, and a path through a
\* symbolic link
Paths == [file : Files, link : BOOLEAN]

ContentHashes == {"h1", "h2"}
Timestamps == {"old", "new"}
Summaries == {"s1", "s2"}

\* struct SummaryEntry
SummaryEntries == [content_hash : ContentHashes, timestamp : Timestamps, summary : Summaries]

\* path.canonicalize().unwrap_or_else(|_| path.to_path_buf()): the canonical
\* path of a file that exists, the path as given otherwise
Canonicalize(path, files) ==
    IF files[path.file] # "absent" THEN [file |-> path.file, link |-> FALSE] ELSE path

\* hash_path: the hash of the canonicalized path (distinct paths are taken to
\* have distinct hashes)
HashPath(path, files) == [hash_of |-> Canonicalize(path, files)]

\* the keys of the entries made for these files when they were summarized:
\* the files existed, their paths were canonicalized
PathHashes == {[hash_of |-> [file |-> f, link |-> FALSE]] : f \in Files}

HashMatches_Any(entry, content_hash) == TRUE

\* Some(entry) if entry.content_hash == content_hash
HashMatches(entry, content_hash) == entry.content_hash = content_hash

\* get_summary
GetSummary(map, path_hash, content_hash) ==
    IF path_hash \in DOMAIN map /\ HashMatches(map[path_hash], content_hash)
    THEN map[path_hash].summary
    ELSE "None"

\* cleanup: the hashes of the regular files the walk of base_dir yields; an
\* entry the walk fails on is skipped
ExistingFiles(files) ==
    {HashPath([file |-> f, link |-> FALSE], files) : f \in {g \in Files : files[g] = "walked"}}

ToRemove_None(map, existing_files) == {}

\* cleanup: the keys not in existing_files
ToRemove(map, existing_files) == {k \in DOMAIN map : k \notin existing_files}

\* the map without the keys of a set
RemoveAll(map, keys) == [k \in DOMAIN map \ keys |-> map[k]]

\* a cache as load_summary_cache read it, and the files as they are now:
\* absent, found by the walk of base_dir, or present where the walk does not
\* get (outside base_dir, or below a directory it cannot read)
InitSummaries ==
    /\ InitSession /\ InitCallers /\ InitWaiting /\ InitFraming /\ InitLocks /\ spawns = 1
    /\ InitRestart /\ InitWalk /\ InitDb
    /\ InitCtx /\ InitNames
    /\ \E keys \in SUBSET PathHashes : entries \in [keys -> SummaryEntries]
    /\ fs \in [Files -> {"absent", "walked", "unreached"}]
    /\ s_op = "none"
    /\ s_path = "none"
    /\ s_hash = "none"
    /\ s_ret = "None"
    /\ s_before = entries

\* cache.get_summary(file_path, content_hash)
CallGetSummary(path, content_hash) ==
    /\ s_op' = "get_summary"
    /\ s_path' = path
    /\ s_hash' = content_hash
    /\ s_ret' = GetSummary(entries, HashPath(path, fs), content_hash)
    /\ s_before' = entries
    /\ UNCHANGED <<elsewhere, ctx, names, entries, fs>>

\* cache.cleanup(base_dir)
Cleanup ==
    /\ s_op' = "cleanup"
    /\ s_path' = "none"
    /\ s_hash' = "none"
    /\ s_ret' = "None"
    /\ s_before' = entries
    /\ entries' = RemoveAll(entries, ToRemove(entries, ExistingFiles(fs)))
    /\ UNCHANGED <<elsewhere, ctx, names, fs>>

NextCache ==
    \/ \E path \in Paths, content_hash \in ContentHashes : CallGetSummary(path, content_hash)
    \/ Cleanup

SpecCache == InitSummaries /\ [][NextCache]_vars

(* ------------------------ Action names (SpecAction) -------------------- *)
\* the string literals of from_str and to_str, as their characters
ReadStr == <<"r", "e", "a", "d">>
ExcludeStr == <<"e", "x", "c", "l", "u", "d", "e">>
EnterStr == <<"e", "n", "t", "e", "r">>
SummarizeStr == <<"s", "u", "m", "m", "a", "r", "i", "z", "e">>
StatsStr == <<"s", "t", "a", "t", "s">>

\* Action::from_str: match s { "read" => Some(Action::Read), ..., _ => None }
FromStr(str) ==
    CASE str = ReadStr -> "Read"
      [] str = ExcludeStr -> "Exclude"
      [] str = EnterStr -> "Enter"
      [] str = SummarizeStr -> "Summarize"
      [] str = StatsStr -> "Stats"
      [] OTHER -> "None"

ToStr_StatsForSummarize(action) ==
    CASE action = "Read" -> ReadStr
      [] action = "Exclude" -> ExcludeStr
      [] action = "Enter" -> EnterStr
      [] action = "Summarize" -> StatsStr
      [] action = "Stats" -> StatsStr

\* Action::to_str
ToStr(action) ==
    CASE action = "Read" -> ReadStr
      [] action = "Exclude" -> ExcludeStr
      [] action = "Enter" -> EnterStr
      [] action = "Summarize" -> SummarizeStr
      [] action = "Stats" -> StatsStr

\* strings near a name: the name, the name less its first or last character,
\* with a space before or after, and with its first letter in upper case
Near(str) ==
    {str, Tail(str), SubSeq(str, 1, Len(str) - 1), <<" ">> \o str, str \o <<" ">>,
     <<"UPPER">> \o Tail(str)}

\* the strings given to from_str: those near the five names, "invalid", and
\* every string of up to MaxStr letters of "read"
Inputs ==
    UNION {Near(ToStr(a)) : a \in Actions}
        \cup {<<"i", "n", "v", "a", "l", "i", "d">>}
        \cup SeqsUpTo({"r", "e", "a", "d"}, MaxStr)

InitAction ==
    /\ InitSession /\ InitCallers /\ InitWaiting /\ InitFraming /\ InitLocks /\ spawns = 1
    /\ InitRestart /\ InitWalk /\ InitDb
    /\ InitCtx /\ InitCache
    /\ a_str \in Inputs
    /\ a_parsed = "unset"
    /\ a_start \in Actions
    /\ a_name = <<>>
    /\ a_back = "unset"

\* Action::from_str(s)
ParseStr ==
    /\ a_parsed = "unset"
    /\ a_parsed' = FromStr(a_str)
    /\ UNCHANGED <<elsewhere, ctx, cache, a_str, a_start, a_name, a_back>>

\* action.to_str()
NameAction ==
    /\ a_name = <<>>
    /\ a_name' = ToStr(a_start)
    /\ UNCHANGED <<elsewhere, ctx, cache, a_str, a_parsed, a_start, a_back>>

\* Action::from_str(action.to_str())
ParseName ==
    /\ a_name # <<>>
    /\ a_back = "unset"
    /\ a_back' = FromStr(a_name)
    /\ UNCHANGED <<elsewhere, ctx, cache, a_str, a_parsed, a_start, a_name>>

NextAction == ParseStr \/ NameAction \/ ParseName

SpecAction == InitAction /\ [][NextAction]_vars

\* the owner thread runs whenever it can; the server owes nothing
LiveSpec == Init /\ [][Next]_vars /\ WF_vars(Client)

(* ------------------- process_node on a small tree (SpecNode) ----------- *)
\* The tree walked: a root directory with a text file, a binary file and a
\* subdirectory; the subdirectory has a text file, a binary file and a
\* directory that file analysis did not record.
Root == "root"
Sub == "root/sub"
Unlisted == "root/sub/unlisted"
RootFile == "root/a.rs"
RootBinary == "root/a.png"
SubFile == "root/sub/b.rs"
SubBinary == "root/sub/b.png"

Nodes == {Root, Sub, Unlisted, RootFile, RootBinary, SubFile, SubBinary}

\* path.is_file()
IsFile(path) == path \in {RootFile, RootBinary, SubFile, SubBinary}

\* is_binary(path) / FileInfo.binary
IsBinary(path) == path \in {RootBinary, SubBinary}

TextFiles == {RootFile, SubFile}

\* dir_info: DirInfo.files and DirInfo.subdirs of the recorded directories
DirInfo ==
    [d \in {Root, Sub} |->
        IF d = Root
        THEN [files |-> <<RootFile, RootBinary>>, subdirs |-> <<Sub>>]
        ELSE [files |-> <<SubFile, SubBinary>>, subdirs |-> <<Unlisted>>]]

\* estimated tokens of a text file: each fits in one context file
FileTokens == {300, 12000, 19900}

\* let stats_tokens = 100
StatsTokens == 100

\* what a call works on: the context file, the totals, the sets, the context
\* files it returns, the file system and the temporary files made
Work(cf, total, done, included, files, d, k) ==
    [cf |-> cf, total |-> total, done |-> done, included |-> included,
     files |-> files, d |-> d, k |-> k]

\* vec![context_file.clone()]: the list a call returns starts with the file
\* it was given
Begin(st) == [st EXCEPT !.files = <<st.cf>>]

\* all_context_files.extend(used_files.into_iter().skip(1))
Merge(acc, r) == [r EXCEPT !.files = acc.files \o Tail(r.files)]

\* *context_file = get_or_rotate_file(..)?; used_files.push(context_file.clone())
RotateAndPush(st) ==
    IF UnderLimit(st.cf.current_tokens)
    THEN [st EXCEPT !.files = Append(@, st.cf)]
    ELSE LET next == GetOrRotateFile(st.cf, output_dir, st.k)
         IN  [st EXCEPT !.cf = next,
                        !.files = Append(@, next),
                        !.d = DiskAfterCreate(@, st.cf.file_num + 1, output_dir, st.k),
                        !.k = IF output_dir = "some" THEN @ ELSE @ + 1]

\* context_file.current_tokens + tokens > CLAUDE_TOKEN_LIMIT
Exceeds(tokens, cost) == tokens + cost > CLAUDE_TOKEN_LIMIT

\* tokens for Read, tokens / 4 for Summarize, stats_tokens for Stats
Cost(path, action) ==
    CASE action = "Read" -> tokens_of[path]
      [] action = "Summarize" -> tokens_of[path] \div 4
      [] action = "Stats" -> StatsTokens

\* what process_file appends for the file
FilePieces(path, action) ==
    CASE action = "Read" -> <<[piece |-> "file", part |-> path, stats |-> FALSE]>>
      [] action = "Summarize" ->
            <<[piece |-> "summary_header", part |-> path, stats |-> FALSE],
              [piece |-> "summary", part |-> path, stats |-> FALSE]>>
      [] action = "Stats" -> <<[piece |-> "file_stats", part |-> path, stats |-> TRUE]>>

\* process_file for Read, Summarize and Stats
ProcessFile(st, path, action) ==
    LET s0 == Begin(st)
        s1 == IF Exceeds(s0.cf.current_tokens, Cost(path, action))
              THEN RotateAndPush(s0) ELSE s0
    IN  [s1 EXCEPT !.d = [@ EXCEPT ![s1.cf.path] = @ \o FilePieces(path, action)],
                   !.cf = [@ EXCEPT !.current_tokens = @ + Cost(path, action)],
                   !.total = IF action = "Stats" THEN @ ELSE @ + Cost(path, action),
                   !.included = IF action = "Stats" THEN @ ELSE @ \cup {path},
                   !.done = @ \cup {path}]

\* process_directory_content: the header, in a new file when asked for
DirectoryContent(st, action) ==
    LET s0 == Begin(st)
        s1 == IF HeaderExceeds(s0.cf.current_tokens) THEN RotateAndPush(s0) ELSE s0
    IN  [s1 EXCEPT !.d = DiskAfterAppend(@, s1.cf.path, DirectoryHeader(action, TRUE)),
                   !.cf = [@ EXCEPT !.current_tokens = @ + HeaderTokens]]

ExcludeAll_OneLevel(to_exclude, done) ==
    LET exclude_path == to_exclude[Len(to_exclude)]
    IN  done \cup {exclude_path}
             \cup (IF exclude_path \in DOMAIN DirInfo
                   THEN {DirInfo[exclude_path].files[i] :
                           i \in DOMAIN DirInfo[exclude_path].files}
                   ELSE {})

\* Action::Exclude on a directory: the stack of directories is emptied, each
\* one popped is marked with its files, its subdirectories are pushed
RECURSIVE ExcludeAll(_, _)
ExcludeAll(to_exclude, done) ==
    IF to_exclude = <<>> THEN done
    ELSE LET exclude_path == to_exclude[Len(to_exclude)]
             rest == SubSeq(to_exclude, 1, Len(to_exclude) - 1)
         IN  IF exclude_path \in DOMAIN DirInfo
             THEN ExcludeAll(rest \o DirInfo[exclude_path].subdirs,
                             done \cup {exclude_path}
                                  \cup {DirInfo[exclude_path].files[i] :
                                          i \in DOMAIN DirInfo[exclude_path].files})
             ELSE ExcludeAll(rest, done \cup {exclude_path})

\* the context files of a list, the first of each path
RECURSIVE Dedupe(_, _)
Dedupe(files, seen) ==
    IF files = <<>> THEN <<>>
    ELSE IF Head(files).path \in seen THEN Dedupe(Tail(files), seen)
    ELSE <<Head(files)>> \o Dedupe(Tail(files), seen \cup {Head(files).path})

AlreadyIncluded_Never(path, included) == FALSE

\* process_node on a file: included_files.contains(path)
AlreadyIncluded(path, included) == path \in included

RECURSIVE ProcessNode(_, _, _)
RECURSIVE ProcessEach(_, _, _, _)

\* the two loops of the directory arm: each file that is not binary and not
\* processed, then each subdirectory that is not processed
ProcessEach(acc, paths, action, files) ==
    IF paths = <<>> THEN acc
    ELSE LET path == Head(paths)
             skip == path \in acc.done \/ (files /\ IsBinary(path))
         IN  ProcessEach(IF skip THEN acc ELSE Merge(acc, ProcessNode(acc, path, action)),
                         Tail(paths), action, files)

\* process_node
ProcessNode(st, path, action) ==
    LET s0 == Begin(st)
        s1 ==
          IF IsFile(path)
          THEN IF AlreadyIncluded(path, s0.included) THEN s0
               ELSE IF IsBinary(path) THEN [s0 EXCEPT !.done = @ \cup {path}]
               ELSE IF action \in {"Read", "Summarize", "Stats"}
               THEN Merge(s0, ProcessFile(s0, path, action))
               ELSE IF action = "Exclude" THEN [s0 EXCEPT !.done = @ \cup {path}]
               ELSE s0
          ELSE IF path \in s0.done THEN s0
               ELSE IF path \notin DOMAIN DirInfo THEN [s0 EXCEPT !.done = @ \cup {path}]
               ELSE IF action \in {"Read", "Summarize", "Stats"}
               THEN LET a == Merge(s0, DirectoryContent(s0, action))
                        b == ProcessEach(a, DirInfo[path].files, action, TRUE)
                        c == ProcessEach(b, DirInfo[path].subdirs, action, FALSE)
                    IN  [c EXCEPT !.done = @ \cup {path}]
               ELSE IF action = "Exclude"
               THEN [s0 EXCEPT !.done = ExcludeAll(<<path>>, @)]
               ELSE s0
    IN  [s1 EXCEPT !.files = Dedupe(@, {})]

\* main: the first context file is created, nothing is processed yet
InitNode ==
    /\ InitSession /\ InitCallers /\ InitWaiting /\ InitFraming /\ InitLocks /\ spawns = 1
    /\ InitRestart /\ InitCache /\ InitNames /\ InitDb
    /\ output_dir \in {"some", "none"}
    /\ temps = (IF output_dir = "some" THEN 0 ELSE 1)
    /\ context_file = CreateContextFile(1, output_dir, 0)
    /\ disk = [p \in {context_file.path} |-> <<Preamble(1)>>]
    /\ x_op = "none"
    /\ x_arg = NoFile
    /\ x_ret = "none"
    /\ x_file = NoFile
    /\ used_files = <<>>
    /\ rotated = FALSE
    /\ dirs = 0
    /\ tokens_of \in [TextFiles -> FileTokens]
    /\ total_tokens = 0
    /\ processed = {}
    /\ included_files = {}
    /\ all_context_files = <<context_file>>
    /\ n_call = NoCall
    /\ n_before = NoSnapshot
    /\ to_process = <<>>
    /\ l_pc = "none"
    /\ l_ret = "none"
    /\ l_result = "none"
    /\ action_cache = <<>>
    /\ saved = {}

\* process_node(path, .., action, ..) is called and returns Ok; the caller
\* takes the totals and the sets and tracks the context files returned
CallProcessNode(path, action) ==
    /\ dirs < MaxNodeCalls
    /\ dirs' = dirs + 1
    /\ LET r == ProcessNode(Work(context_file, total_tokens, processed, included_files,
                                 <<>>, disk, temps), path, action)
       IN  /\ context_file' = r.cf
           /\ total_tokens' = r.total
           /\ processed' = r.done
           /\ included_files' = r.included
           /\ used_files' = r.files
           /\ disk' = r.d
           /\ temps' = r.k
           /\ all_context_files' = all_context_files \o Tail(r.files)
    /\ n_call' = NodeCall(path, action)
    /\ n_before' = Snapshot(context_file, total_tokens, processed, included_files, disk)
    /\ UNCHANGED <<lsp, cache, names, db, output_dir, x_op, x_arg, x_ret, x_file, rotated,
                   tokens_of, to_process, l_pc, l_ret, l_result, action_cache, saved>>

NextNode == \E path \in Nodes, action \in Actions : CallProcessNode(path, action)

SpecNode == InitNode /\ [][NextNode]_vars

(* ----------------- process_interactive_loop, no cache ------------------ *)
\* file sizes for the interactive walk: a small file and one that, after a
\* directory header, leaves less than a header's room in the context file
LoopTokens == {300, 19700}

\* what the interactive walk leaves alone
beside == <<lsp, cache, names, db, output_dir, x_op, x_arg, x_ret, x_file, used_files,
            rotated, dirs, tokens_of, n_call, n_before>>

\* main without a cache: the first context file, then process_interactive_loop
\* with to_process = vec![start_dir], nothing processed and no tokens
InitLoop ==
    /\ InitSession /\ InitCallers /\ InitWaiting /\ InitFraming /\ InitLocks /\ spawns = 1
    /\ InitRestart /\ InitCache /\ InitNames /\ InitDb
    /\ output_dir \in {"some", "none"}
    /\ temps = (IF output_dir = "some" THEN 0 ELSE 1)
    /\ context_file = CreateContextFile(1, output_dir, 0)
    /\ disk = [p \in {context_file.path} |-> <<Preamble(1)>>]
    /\ x_op = "none"
    /\ x_arg = NoFile
    /\ x_ret = "none"
    /\ x_file = NoFile
    /\ used_files = <<>>
    /\ rotated = FALSE
    /\ dirs = 0
    /\ tokens_of \in [TextFiles -> LoopTokens]
    /\ total_tokens = 0
    /\ processed = {}
    /\ included_files = {}
    /\ all_context_files = <<context_file>>
    /\ n_call = NoCall
    /\ n_before = NoSnapshot
    /\ to_process = <<Root>>
    /\ l_pc = "loop"
    /\ l_ret = "none"
    /\ l_result = "none"
    /\ action_cache = <<>>
    /\ saved = {}

\* to_process.pop(): the node taken and what stays
Current == to_process[Len(to_process)]
Popped == SubSeq(to_process, 1, Len(to_process) - 1)

\* cache.insert(current, action)
CacheInsert(c, path, action) ==
    [x \in DOMAIN c \cup {path} |-> IF x = path THEN action ELSE c[x]]

\* the choices that call process_node, and the action each passes
ChoiceAction ==
    [c \in {"1", "2", "4", "5"} |->
        CASE c = "1" -> "Read" [] c = "2" -> "Exclude"
          [] c = "4" -> "Summarize" [] c = "5" -> "Stats"]

\* what each choice records in the cache
ChoiceCached ==
    [c \in {"1", "2", "4", "5"} |->
        CASE c = "1" -> "read" [] c = "2" -> "exclude"
          [] c = "4" -> "summarize" [] c = "5" -> "stats"]

\* for file in result.context_files.into_iter().skip(1):
\*     if !all_context_files.iter().any(|f| f.path == file.path) { push }
RECURSIVE PushNew(_, _)
PushNew(all, files) ==
    IF files = <<>> THEN all
    ELSE PushNew(IF \E i \in DOMAIN all : all[i].path = Head(files).path
                 THEN all ELSE Append(all, Head(files)),
                 Tail(files))

\* the children an entered directory queues: its files, then its
\* subdirectories, each unless processed
RECURSIVE Unprocessed(_, _)
Unprocessed(paths, done) ==
    IF paths = <<>> THEN <<>>
    ELSE (IF Head(paths) \in done THEN <<>> ELSE <<Head(paths)>>)
            \o Unprocessed(Tail(paths), done)

\* the loop is at a node it will ask about
Asking ==
    /\ l_pc = "loop"
    /\ to_process # <<>>
    /\ Current \notin processed
    /\ IsFile(Current) \/ Current \in DOMAIN DirInfo
    /\ ~IsBinary(Current)

\* the node popped is processed already, or a directory dir_info lacks
LoopSkip ==
    /\ l_pc = "loop"
    /\ to_process # <<>>
    /\ Current \in processed \/ (~IsFile(Current) /\ Current \notin DOMAIN DirInfo)
    /\ to_process' = Popped
    /\ UNCHANGED <<beside, context_file, disk, temps, total_tokens, processed, included_files,
                   all_context_files, l_pc, l_ret, l_result, action_cache, saved>>

\* a binary file is marked and not asked about
LoopBinary ==
    /\ l_pc = "loop"
    /\ to_process # <<>>
    /\ Current \notin processed
    /\ IsBinary(Current)
    /\ processed' = processed \cup {Current}
    /\ to_process' = Popped
    /\ UNCHANGED <<beside, context_file, disk, temps, total_tokens, included_files,
                   all_context_files, l_pc, l_ret, l_result, action_cache, saved>>

\* choices 1, 2, 4 and 5: the cache records the choice, process_node runs
\* and returns Ok; all but Exclude track the context files it returns
ChooseAction(choice) ==
    /\ Asking
    /\ action_cache' = CacheInsert(action_cache, Current, ChoiceCached[choice])
    /\ LET r == ProcessNode(Work(context_file, total_tokens, processed, included_files,
                                 <<>>, disk, temps), Current, ChoiceAction[choice])
       IN  /\ context_file' = r.cf
           /\ total_tokens' = r.total
           /\ processed' = r.done
           /\ included_files' = r.included
           /\ disk' = r.d
           /\ temps' = r.k
           /\ all_context_files' =
                 IF choice = "2" THEN all_context_files
                 ELSE PushNew(all_context_files, Tail(r.files))
    /\ to_process' = Popped
    /\ UNCHANGED <<beside, l_pc, l_ret, l_result, saved>>

\* choice 3 on a directory: the header goes to the context file, to the one
\* get_or_rotate_file returns when a header would pass the limit, and that
\* one is pushed onto the tracked list; the children are queued
ChooseEnter ==
    /\ Asking
    /\ ~IsFile(Current)
    /\ LET s0 == Work(context_file, total_tokens, processed, included_files,
                      all_context_files, disk, temps)
           s1 == IF HeaderExceeds(context_file.current_tokens) THEN RotateAndPush(s0) ELSE s0
       IN  /\ context_file' = [s1.cf EXCEPT !.current_tokens = @ + HeaderTokens]
           /\ all_context_files' = s1.files
           /\ disk' = DiskAfterAppend(s1.d, s1.cf.path, DirectoryHeader("Enter", FALSE))
           /\ temps' = s1.k
    /\ processed' = processed \cup {Current}
    /\ action_cache' = CacheInsert(action_cache, Current, "enter")
    /\ to_process' = Popped \o Unprocessed(DirInfo[Current].files, processed')
                            \o Unprocessed(DirInfo[Current].subdirs, processed')
    /\ UNCHANGED <<beside, total_tokens, included_files, l_pc, l_ret, l_result, saved>>

\* choice 3 on a file, or a choice that is none of 1-5 and q: the node goes
\* to the far end of the queue
ChooseInvalid(choice) ==
    /\ Asking
    /\ choice = "3" => IsFile(Current)
    /\ to_process' = <<Current>> \o Popped
    /\ UNCHANGED <<beside, context_file, disk, temps, total_tokens, processed, included_files,
                   all_context_files, l_pc, l_ret, l_result, action_cache, saved>>

\* choice q: break
ChooseQuit ==
    /\ Asking
    /\ to_process' = Popped
    /\ l_result' = "Ok"
    /\ l_pc' = "finalize"
    /\ UNCHANGED <<beside, context_file, disk, temps, total_tokens, processed, included_files,
                   all_context_files, l_ret, action_cache, saved>>

\* reading the choice fails: the closure returns the error
ChoiceFails ==
    /\ Asking
    /\ to_process' = Popped
    /\ l_result' = "Err"
    /\ l_pc' = "finalize"
    /\ UNCHANGED <<beside, context_file, disk, temps, total_tokens, processed, included_files,
                   all_context_files, l_ret, action_cache, saved>>

\* to_process.pop() is None: the closure returns Ok
LoopEnds ==
    /\ l_pc = "loop"
    /\ to_process = <<>>
    /\ l_result' = "Ok"
    /\ l_pc' = "finalize"
    /\ UNCHANGED <<beside, context_file, disk, temps, total_tokens, processed, included_files,
                   all_context_files, l_ret, to_process, action_cache, saved>>

\* finalize_context_files writes to the file at idx: the footer, then the
\* path of the next file or the closing line
Footer(context_files, idx) ==
    IF idx < Len(context_files)
    THEN [piece |-> "footer_next", part |-> context_files[idx + 1].path, stats |-> FALSE]
    ELSE [piece |-> "footer_last", part |-> 0, stats |-> FALSE]

\* the file system after finalize_context_files has written to the first n
RECURSIVE Finalized(_, _, _)
Finalized(d, context_files, n) ==
    IF n = 0 THEN d
    ELSE DiskAfterAppend(Finalized(d, context_files, n - 1), context_files[n].path,
                         Footer(context_files, n))

LoopReturn_Propagate(res) == IF res = "Ok" THEN "Ok" ELSE "Err_loop"

\* match result { Ok(_) => Ok(()), Err(e) => { println!("\nInterrupted: {}", e); Ok(()) } }
LoopReturn(res) == "Ok"

\* finalize_context_files(all_context_files, ..)?: every file is opened for
\* append and written to; the first open that fails ends the function
FinalizeContextFiles ==
    /\ l_pc = "finalize"
    /\ \E n \in 0..Len(all_context_files) :
          /\ disk' = Finalized(disk, all_context_files, n)
          /\ IF n = Len(all_context_files)
             THEN l_pc' = "save_cache" /\ l_ret' = l_ret
             ELSE l_pc' = "returned" /\ l_ret' = "Err_finalize"
    /\ UNCHANGED <<beside, context_file, temps, total_tokens, processed, included_files,
                   all_context_files, to_process, l_result, action_cache, saved>>

\* save_cache(&start_dir, cache)?
SaveCache ==
    /\ l_pc = "save_cache"
    /\ \/ saved' = saved \cup {"cache"} /\ l_pc' = "save_summaries" /\ l_ret' = l_ret
       \/ saved' = saved /\ l_pc' = "returned" /\ l_ret' = "Err_save_cache"
    /\ UNCHANGED <<beside, context_file, disk, temps, total_tokens, processed, included_files,
                   all_context_files, to_process, l_result, action_cache>>

\* save_summary_cache(&start_dir, summary_cache)?, then the report and the
\* match on the closure's result
SaveSummaryCache ==
    /\ l_pc = "save_summaries"
    /\ \/ saved' = saved \cup {"summaries"} /\ l_ret' = LoopReturn(l_result)
       \/ saved' = saved /\ l_ret' = "Err_save_summaries"
    /\ l_pc' = "returned"
    /\ UNCHANGED <<beside, context_file, disk, temps, total_tokens, processed, included_files,
                   all_context_files, to_process, l_result, action_cache>>

NextLoop ==
    \/ LoopSkip
    \/ LoopBinary
    \/ \E choice \in {"1", "2", "4", "5"} : ChooseAction(choice)
    \/ ChooseEnter
    \/ \E choice \in {"3", "x"} : ChooseInvalid(choice)
    \/ ChooseQuit
    \/ ChoiceFails
    \/ LoopEnds
    \/ FinalizeContextFiles
    \/ SaveCache
    \/ SaveSummaryCache

SpecLoop == InitLoop /\ [][NextLoop]_vars

(* ---------------------------- CacheManager ----------------------------- *)
\* normalized contents, summaries and file paths given to the cache
Contents == {"text_a", "text_b"}
DocSummaries == {"summary_1", "summary_2"}
SourcePaths == {"src/a.rs", "src/b.rs"}

\* hash_content: SHA256 in hex, one hash for each content
HashContent(content) == [sha256 |-> content]

\* a finished call
Called(call, args, value) == [op |-> call, arg |-> args, ret |-> value]

\* CacheManager::new(cache_dir), nothing called yet
InitCacheManager ==
    /\ InitSession /\ InitCallers /\ InitWaiting /\ InitFraming /\ InitLocks /\ spawns = 1
    /\ InitRestart /\ InitCtx /\ InitCache /\ InitNames /\ InitWalk
    /\ doc_cache = {}
    /\ source_cache = {}
    /\ k_calls = <<>>

\* the call is made and returns
Returns(call, args, value) ==
    /\ Len(k_calls) < MaxDbCalls
    /\ k_calls' = Append(k_calls, Called(call, args, value))
    /\ UNCHANGED <<lsp, ctx, cache, names, walk>>

\* initialize: CREATE TABLE IF NOT EXISTS for both tables
Initialize ==
    /\ Returns("initialize", <<>>, "Ok")
    /\ UNCHANGED <<doc_cache, source_cache>>

\* insert_source_cache: the hash is computed and returned
InsertSourceCache(file_path, content, summary) ==
    /\ Returns("insert_source_cache", <<file_path, content, summary>>, HashContent(content))
    /\ UNCHANGED <<doc_cache, source_cache>>

\* lookup_source_cache: Ok(None)
LookupSourceCache(file_path, content_hash) ==
    /\ Returns("lookup_source_cache", <<file_path, content_hash>>, "None")
    /\ UNCHANGED <<doc_cache, source_cache>>

\* insert_doc_cache: the hash is computed and returned
InsertDocCache(normalized_content, summary) ==
    /\ Returns("insert_doc_cache", <<normalized_content, summary>>, HashContent(normalized_content))
    /\ UNCHANGED <<doc_cache, source_cache>>

\* what lookup_doc_cache returns: Ok(None)
LookupDoc(content_hash) == "None"

\* lookup_doc_cache
LookupDocCache(content_hash) ==
    /\ Returns("lookup_doc_cache", <<content_hash>>, LookupDoc(content_hash))
    /\ UNCHANGED <<doc_cache, source_cache>>

\* has_doc_summary: lookup_doc_cache(hash)?.is_some()
HasDocSummary(normalized_content) ==
    /\ Returns("has_doc_summary", <<normalized_content>>,
               LookupDoc(HashContent(normalized_content)) # "None")
    /\ UNCHANGED <<doc_cache, source_cache>>

NextDb ==
    \/ Initialize
    \/ \E file_path \in SourcePaths, content \in Contents, summary \in DocSummaries :
          InsertSourceCache(file_path, content, summary)
    \/ \E file_path \in SourcePaths, content \in Contents :
          LookupSourceCache(file_path, HashContent(content))
    \/ \E content \in Contents, summary \in DocSummaries : InsertDocCache(content, summary)
    \/ \E content \in Contents : LookupDocCache(HashContent(content))
    \/ \E content \in Contents : HasDocSummary(content)

SpecDb == InitCacheManager /\ [][NextDb]_vars

(* ------------------------------- claims -------------------------------- *)
\* the owner is inside read_response
InRead == pc \in {"lock", "read_line", "test_line", "parse", "read_body"}

Last(q) == q[Len(q)]

\* C1: read_response hands send_request only the frame whose id is the id
\* dispatched; notifications and responses with other ids are passed over
\* and the call goes on to the matching response.
C1_ReturnsOnlyMatching ==
    /\ response # NoMsg => response.id = expected_id
    /\ (pc = "resolve" \/ result = "ok") => response.id = expected_id

\* a request returned Ok after passing over a notification and a response
\* with another id
C1_Witness ==
    /\ result = "ok"
    /\ skipped = {"notification", "other_response"}

\* C3: once the child has exited, a request waiting in read_response ends
\* (with an error, or with the response if it was already in the pipe).
C3_ClosedStreamEndsRequest ==
    (InRead /\ process # "running") ~> ~InRead

\* C4: a response for the awaited id with an error field never resolves the
\* request as Ok.
C4_ErrorFieldIsError ==
    response.hasError => result # "ok"

\* a matching response with both a result and an error field resolved as Err
C4_Witness ==
    /\ response.hasError /\ response.hasResult
    /\ response.id = expected_id
    /\ result = "err"

\* C5: once drop has begun, the kill step is eventually carried out.
C5_DropKills ==
    (op = "drop") ~> (op = "gone")

\* C6: drop never panics.
C6_DropNeverPanics ==
    op # "panicked"

\* C7: after shutdown has returned Ok, the drop that follows does not panic,
\* does not enter the blocking read, and signals no process.
C7_DropAfterShutdownQuiet ==
    ret = [op |-> "shutdown", ok |-> TRUE] =>
        /\ process = "reaped"
        /\ op \in {"drop", "gone"}
        /\ ~InRead
        /\ sigkill = "none"
        /\ ~unwinding

\* shutdown returned Ok and the drop after it has run to its end
C7_Witness ==
    /\ ret = [op |-> "shutdown", ok |-> TRUE]
    /\ op = "gone"

\* C8: `initialized` goes on the wire right after an initialize request whose
\* send_request returned Ok, never otherwise; initialize returns Ok only with
\* it sent; nothing is read after it until the next request is sent.
C8_InitializedAfterResponse ==
    /\ \A i \in DOMAIN wire :
          wire[i].method = "initialized" =>
             /\ i > 1
             /\ wire[i-1].method = "initialize"
             /\ wire[i-1].id \in okIds
    /\ ret = [op |-> "initialize", ok |-> TRUE] =>
          \E i \in DOMAIN wire : wire[i].method = "initialized"
    /\ (wire # <<>> /\ Last(wire).method = "initialized") => ~InRead

\* initialize returned Ok
C8_Witness ==
    /\ ret = [op |-> "initialize", ok |-> TRUE]
    /\ wire # <<>> /\ Last(wire).method = "initialized"

\* C9: in shutdown, `exit` is written right after the shutdown request whose
\* send_request returned Ok, the wait follows it, and Ok is returned only
\* with the child exited and waited for.
C9_ShutdownInOrder ==
    /\ \A i \in DOMAIN wire :
          (wire[i].method = "exit" /\ wire[i].by = "shutdown") =>
             /\ i > 1
             /\ wire[i-1].method = "shutdown" /\ wire[i-1].by = "shutdown"
             /\ wire[i-1].id \in okIds
    /\ (op = "shutdown" /\ pc = "wait") =>
          (Last(wire).method = "exit" /\ Last(wire).by = "shutdown")
    /\ ret = [op |-> "shutdown", ok |-> TRUE] =>
          /\ process = "reaped"
          /\ \E i \in DOMAIN wire : wire[i].method = "exit" /\ wire[i].by = "shutdown"

\* shutdown returned Ok
C9_Witness ==
    /\ ret = [op |-> "shutdown", ok |-> TRUE]
    /\ \E i \in DOMAIN wire : wire[i].method = "exit" /\ wire[i].by = "shutdown"


\* C18: once a request has failed with a framing error (no valid
\* Content-Length, a body shorter than declared, the stream closed in the
\* middle of a frame) no later request on the session returns a result.
C18_FramingErrorIsFatal ==
    ("framing" \in fails /\ op \in {"query", "initialize", "shutdown"}) => result # "ok"

\* the stream stands at the start of a header line
AtFrameBoundary(buf) == buf = <<>> \/ Head(buf).t \in LineKinds \cup {"PART"}

\* C19: when a request ends on a matched response that carries an error, or
\* whose result fails typed decoding, the matched frame has been consumed
\* whole, the next id is the one after it and the locks are sound; a request
\* that returns Ok after such a failure still holds the response with its
\* own id.
C19_SessionUsableAfterProtocolError ==
    /\ (op = "idle" /\ response # NoMsg /\ ~ret.ok) =>
           /\ AtFrameBoundary(inbuf)
           /\ request_id = expected_id + 1
           /\ ~poisoned
    /\ (fails = {"protocol"} /\ result = "ok") =>
           /\ response.id = expected_id
           /\ expected_id \in okIds

\* the first request was answered with an error, the second returned its
\* own result
C19_Witness ==
    /\ fails = {"protocol"}
    /\ result = "ok"
    /\ okIds = {2}

\* C20: the step of read_response that takes a notification with a method
\* the client does not handle goes back to reading headers and leaves the
\* request in progress, its result and the failures so far as they were.
C20_UnrecognizedIgnored ==
    [][(/\ pc = "read_body"
        /\ inbuf # <<>>
        /\ Head(inbuf).t = "BODY"
        /\ Head(inbuf).m.method \notin {"none", "$/progress"}
        /\ pc' # pc)
       => (/\ pc' = "read_line"
           /\ inbuf' = Tail(inbuf)
           /\ UNCHANGED <<op, result, ret, response, fails>>)]_vars

\* a request returned Ok after an unrecognized notification was passed over
C20_Witness ==
    /\ result = "ok"
    /\ "unrecognized" \in skipped
    /\ fails = {}

\* C2: the ids fetch_add hands out on one session are 1, 2, 3, ... in the
\* order of the calls: they start at 1, increase strictly and never repeat,
\* with callers running concurrently and with sends that fail.
C2_IdsStrictlyIncreasing ==
    /\ \A i \in DOMAIN issued : issued[i] = i
    /\ \A t, u \in Threads :
          (t # u /\ t_pc[t] # "start" /\ t_pc[u] # "start") => t_id[t] # t_id[u]
    /\ \A i, j \in DOMAIN wire : i < j => wire[i].id # wire[j].id

\* two callers hold ids at once, and an id was allocated after a send failed
C2_Witness ==
    /\ \A t \in Threads : t_pc[t] = "send"
    /\ Len(issued) > Len(wire) + NThreads
    /\ process = "exited"

\* C10: wait_for_ready returns the timeout error only with the time since
\* its start above the timeout, and after at least one probe.
C10_TimeoutOnlyAfterDeadline ==
    w_ret = "timeout" =>
        /\ now - start > MaxDuration(max_wait_secs)
        /\ probes >= 1

\* a timeout with max_wait_secs = 0, after a first probe that took no time
C10_Witness ==
    /\ w_ret = "timeout"
    /\ max_wait_secs = 0
    /\ probes = 2

\* C11: while wait_for_ready has not returned, the time since its start is
\* at most the timeout plus the time of one answered probe and one sleep.
C11_ReturnsByDeadline ==
    w_pc \in {"probe", "check", "sleep"} =>
        now - start <= MaxDuration(max_wait_secs) + Grace

\* C12: wait_for_ready returns Ok exactly at a probe that returned a
\* non-empty flat or nested list and probes no more after it; a probe that
\* returned an empty list goes on to the deadline check and returns nothing.
C12_ReadyAtFirstNonEmpty ==
    /\ [](/\ symbols \in {"flat", "nested"} => (w_pc = "done" /\ w_ret = "ok")
          /\ w_ret = "ok" => symbols \in {"flat", "nested"})
    /\ [][/\ w_ret = "ok" => UNCHANGED <<probes, symbols, w_ret, w_pc>>
          /\ (probes' = probes + 1 /\ symbols' \in {"flat_empty", "nested_empty"})
                => (w_pc' = "check" /\ w_ret' = w_ret)]_vars

\* Ok at the second probe, with a nested list, after a first probe that was
\* not ready
C12_Witness ==
    /\ w_ret = "ok"
    /\ symbols = "nested"
    /\ probes = 2

\* C13: a probe that failed or whose result did not decode goes on to the
\* deadline check and returns nothing; wait_for_ready returns only Ok or the
\* timeout error.
C13_ProbeErrorsNotSurfaced ==
    /\ [](w_ret \in {"none", "ok", "timeout"})
    /\ [][(probes' = probes + 1 /\ symbols' \in {"error", "undecodable"})
             => (w_pc' = "check" /\ w_ret' = w_ret)]_vars

\* the first probe failed, the deadline had not passed, and after the sleep
\* the second probe is about to run
C13_Witness ==
    /\ symbols = "error"
    /\ probes = 1
    /\ w_pc = "probe"
    /\ w_ret = "none"

\* the UTF-8 length of a message, character by character
RECURSIVE ByteLength(_)
ByteLength(msg) == IF msg = <<>> THEN 0 ELSE Utf8Len(Head(msg)) + ByteLength(Tail(msg))

\* C17: the frame send_message writes declares the number of UTF-8 bytes of
\* the payload, and read_response, reading that frame, ends with the message
\* that was sent and nothing left in the stream.
C17_FrameRoundTrip ==
    /\ f_pc # "error"
    /\ f_pc \in {"read_body", "done"} => f_len = ByteLength(f_msg)
    /\ f_pc = "done" => (f_out = f_msg /\ f_stream = <<>>)

\* a message with characters of several bytes and a two-digit length has
\* been sent and read back
C17_Witness ==
    /\ f_pc = "done"
    /\ f_len >= 10
    /\ Len(f_msg) < f_len
    /\ f_out = f_msg

\* C14: whatever the interleaving of the sending threads, the chunks on the
\* child's stdin are header, content, header, content, ..., each content
\* directly after the header of the same message, and a header without its
\* content is last and belongs to the thread holding the writer.
C14_FramesNotInterleaved ==
    \A i \in DOMAIN stdin :
        /\ stdin[i].part = (IF i % 2 = 1 THEN "header" ELSE "content")
        /\ i % 2 = 0 => stdin[i].of = stdin[i - 1].of
        /\ (i % 2 = 1 /\ i = Len(stdin)) =>
              (writer = stdin[i].of /\ c_pc[writer] = "write_content")
        /\ \A j \in DOMAIN stdin : (j # i /\ stdin[j].of = stdin[i].of) => stdin[j].part # stdin[i].part

\* every thread has written a whole frame, a request and a notification among
\* them, and the writer is free again
C14_Witness ==
    /\ Len(stdin) = 2 * NThreads
    /\ \E t, u \in Threads : c_kind[t] = "request" /\ c_kind[u] = "notification"
    /\ writer = 0

\* C15: no thread holds both locks; the thread holding the writer is writing
\* and the thread holding the reader is reading; a thread asking for the
\* writer goes on whenever the writer is free, whoever holds the reader, and
\* a thread asking for the reader whenever the reader is free.
C15_LocksIndependent ==
    /\ \A t \in Threads : ~(writer = t /\ reader = t)
    /\ writer # 0 => c_pc[writer] \in {"write_header", "write_content", "flush"}
    /\ reader # 0 => c_pc[reader] = "read"
    /\ \A t \in Threads :
          (c_pc[t] = "lock_writer" /\ writer = 0) => ENABLED LockWriter(t)
    /\ \A t \in Threads :
          (c_pc[t] = "lock_reader" /\ reader = 0) => ENABLED LockReader(t)

\* a notification has been sent whole by a thread that asked for the writer
\* while another thread held the reader, and that thread is still blocked in
\* its read loop
C15_Witness ==
    \E t, u \in Threads :
        /\ c_kind[t] = "notification" /\ c_pc[t] = "done" /\ sawReader[t]
        /\ reader = u /\ c_pc[u] = "read" /\ stdout = <<>> /\ c_id[u] \notin answered

\* C16: a caller whose response was read and passed over by another caller's
\* read loop has not got and never gets its response.
C16_StolenResponseIsLost ==
    \A t \in Threads : c_id[t] \in taken => (got[t] = 0 /\ c_pc[t] # "done")

\* both requests were answered; one caller returned after its loop passed
\* over the other's response, and the other waits on an empty stream
C16_Witness ==
    \E t, u \in Threads :
        /\ c_kind[t] = "request" /\ c_kind[u] = "request"
        /\ {c_id[t], c_id[u]} \subseteq answered
        /\ c_pc[t] = "done" /\ got[t] = c_id[t]
        /\ c_id[u] \in taken
        /\ c_pc[u] \in {"lock_reader", "read"}
        /\ stdout = <<>>

\* the chunks thread t has written
ChunksOf(t) == {i \in DOMAIN stdin : stdin[i].of = t}

\* C21: a thread in send_notification has no id, never asks for the reader
\* lock, never reads a frame, and has written one header and one content once
\* it is done; request_id counts the requests only, so the next request gets
\* the same id however many notifications were sent.
C21_NotifyWritesOneFrameOnly ==
    /\ \A t \in Threads :
          c_kind[t] = "notification" =>
              /\ c_id[t] = 0
              /\ reader # t
              /\ c_pc[t] \in {"lock_writer", "write_header", "write_content", "flush", "done"}
              /\ got[t] = 0
              /\ c_pc[t] = "done" =>
                    (/\ Cardinality(ChunksOf(t)) = 2
                     /\ \E i \in ChunksOf(t) :
                           stdin[i].part = "header" /\ i + 1 \in ChunksOf(t))
    /\ request_id = 1 + Cardinality({t \in Threads : c_kind[t] = "request"})
    /\ \A t \in Threads : c_kind[t] = "request" => c_id[t] \in 1..(request_id - 1)

\* a notification was sent whole, nothing was read, and the request made
\* next to it has id 1
C21_Witness ==
    \E t, u \in Threads :
        /\ c_kind[u] = "notification" /\ c_pc[u] = "done"
        /\ c_kind[t] = "request" /\ c_id[t] = 1 /\ c_pc[t] = "lock_writer"
        /\ Len(stdin) = 2
        /\ reader = 0 /\ stdout = <<>>

\* C22: spawn is called once at most; when it fails new() has returned the
\* error, no child exists, and nothing is ever written to a server or
\* signalled: the state stays as construction left it.
C22_SpawnFailureIsFinal ==
    /\ spawns <= 1
    /\ op = "new" => spawns = 0
    /\ op = "no_client" =>
          /\ spawns = 1
          /\ ret = [op |-> "new", ok |-> FALSE]
          /\ process = "none"
          /\ wire = <<>>
          /\ sigkill = "none"
          /\ pc = "none"
          /\ request_id = 1

\* the spawn failed and new() returned the error
C22_Witness ==
    /\ op = "no_client"
    /\ spawns = 1
    /\ ~ret.ok

\* the directory headers in a file on disk
Headers(d, path) ==
    Cardinality({i \in DOMAIN d[path] : d[path][i].piece = "directory"})

\* C23: get_or_rotate_file gives back the file it was given when that file's
\* current_tokens is below CLAUDE_TOKEN_LIMIT, and otherwise a file it has
\* created, numbered one more, with current_tokens 0.
C23_RotateAtLimit ==
    (x_op = "get_or_rotate_file" /\ x_ret = "ok") =>
        /\ x_arg.current_tokens < 20000 => (x_file = x_arg /\ ~rotated)
        /\ x_arg.current_tokens >= 20000 =>
              /\ rotated
              /\ x_file.file_num = x_arg.file_num + 1
              /\ x_file.current_tokens = 0
              /\ x_file.path \in DOMAIN disk
              /\ disk[x_file.path] = <<Preamble(x_file.file_num)>>

\* a file at exactly the limit was rotated
C23_Witness ==
    /\ x_op = "get_or_rotate_file" /\ x_ret = "ok"
    /\ x_arg.current_tokens = 20000
    /\ x_file.file_num = x_arg.file_num + 1
    /\ rotated

\* C27: after process_directory_content has returned Ok, the file in use has
\* 200 tokens more than before (200 when it was just created), the list
\* starts with the file passed in, and it has a second element exactly when
\* a new file was created.
C27_SecondFileIffRotation ==
    (x_op = "process_directory_content" /\ x_ret = "ok") =>
        /\ used_files[1] = x_arg
        /\ context_file.current_tokens =
              (IF rotated THEN 0 ELSE x_arg.current_tokens) + 200
        /\ Len(used_files) \in 1..2
        /\ (Len(used_files) = 2) <=> rotated

\* C24: get_summary returns the summary stored under the hash of the path
\* when the entry's content hash is the one asked for, returns None when
\* there is no entry under that hash or its content hash differs, and leaves
\* the entries as they were.
C24_SummaryIffHashMatches ==
    s_op = "get_summary" =>
        LET key == [hash_of |-> IF fs[s_path.file] = "absent" THEN s_path
                                ELSE [file |-> s_path.file, link |-> FALSE]]
        IN  /\ entries = s_before
            /\ (key \in DOMAIN entries /\ entries[key].content_hash = s_hash)
                  => s_ret = entries[key].summary
            /\ (key \notin DOMAIN entries \/ entries[key].content_hash # s_hash)
                  => s_ret = "None"

\* a lookup through a symbolic link found the summary of an existing file,
\* and in another cache the same path with the same hash has another entry
C24_Witness ==
    /\ s_op = "get_summary"
    /\ s_path = [file |-> "f1", link |-> TRUE]
    /\ fs["f1"] = "walked"
    /\ s_ret = "s2"
    /\ Cardinality(DOMAIN entries) = 2

\* the file an entry was stored for still exists
FileExists(key) == fs[key.hash_of.file] # "absent"

\* C25: after cleanup the entries are exactly the entries from before whose
\* file still exists, each with its content hash, timestamp and summary.
C25_CleanupRemovesOnlyMissing ==
    s_op = "cleanup" =>
        /\ DOMAIN entries = {k \in DOMAIN s_before : FileExists(k)}
        /\ \A k \in DOMAIN entries : entries[k] = s_before[k]

\* C26: parsing the name of an action gives that action back; two actions
\* have different names; a string parses to an action only if it is one of
\* "read", "exclude", "enter", "summarize", "stats", and then to the action
\* of that name.
C26_ActionNamesRoundTrip ==
    /\ a_back # "unset" => a_back = a_start
    /\ a_name # <<>> =>
          \A b \in Actions \ {a_start} : ToStr(b) # a_name
    /\ a_parsed # "unset" =>
          /\ a_parsed # "None" <=>
                a_str \in {<<"r", "e", "a", "d">>, <<"e", "x", "c", "l", "u", "d", "e">>,
                           <<"e", "n", "t", "e", "r">>,
                           <<"s", "u", "m", "m", "a", "r", "i", "z", "e">>,
                           <<"s", "t", "a", "t", "s">>}
          /\ a_parsed # "None" => (a_parsed \in Actions /\ ToStr(a_parsed) = a_str)

\* Summarize went to its name and back, and a name with a space after it
\* parsed to no action
C26_Witness ==
    /\ a_start = "Summarize"
    /\ a_back = "Summarize"
    /\ a_str = <<"s", "t", "a", "t", "s", " ">>
    /\ a_parsed = "None"


\* the client was created and initialized and nobody has shut it down
InitializedAndOpen ==
    /\ r_pc = "ready"
    /\ op = "idle"
    /\ ret = [op |-> "initialize", ok |-> TRUE]

C29_OnlyResponsesAccepted ==
    response # NoMsg => response.method = "none"

\* C30: during a wait the reader lock is held for one frame at a time: the
\* step that completes the reading of a frame, whether the frame is the
\* awaited response or one that is passed over, leaves the reader lock free.
C30_ReaderLockPerFrame ==
    [][Len(stdout') < Len(stdout) => MutexFree(reader')]_vars

\* the owner's read_response is about to read the body of a $/progress
\* notification
AtProgressBody ==
    /\ pc = "read_body"
    /\ inbuf # <<>>
    /\ Head(inbuf).t = "BODY"
    /\ Head(inbuf).m.method = "$/progress"

\* C31: a $/progress notification read during a wait, whatever it has of
\* token, message and percentage, does not end the wait: the request neither
\* fails nor returns on it, read_response goes on to the next header, and the
\* message handed to send_request is never a $/progress notification.
C31_ProgressIsInformationOnly ==
    /\ [](response.method # "$/progress")
    /\ [][(AtProgressBody /\ Len(inbuf') < Len(inbuf))
            => /\ pc' = "read_line"
               /\ op' = op
               /\ result' = result
               /\ ret' = ret
               /\ fails' = fails
               /\ response' = response]_vars

\* one notification has been passed over in this wait and the next frame is
\* a $/progress that has a token and no value
C31_Witness ==
    /\ "notification" \in skipped
    /\ AtProgressBody
    /\ Head(inbuf).m.params = "token_only"

\* send_request has resolved the response read_response handed it
Resolved == response # NoMsg /\ pc # "resolve"

\* C32: a response with the awaited id that has a result and no error
\* resolves the request as Ok, also when the result is JSON null; one that
\* has neither a result nor an error resolves it as an error.
C32_ResultResolvesNullIncluded ==
    Resolved =>
        /\ (response.hasResult /\ ~response.hasError) => result = "ok"
        /\ (~response.hasResult /\ ~response.hasError) => result = "err"

\* shutdown was answered with a null result and no error, and went on
C32_Witness ==
    /\ Resolved
    /\ op = "shutdown"
    /\ response.hasResult /\ response.resultNull /\ ~response.hasError
    /\ result = "ok"

\* the header lines read so far that are not the Content-Length line
ExtraLines ==
    {i \in DOMAIN f_header : Head(f_header[i]) # B("text", "Content-Length:", 0)}

\* C33: a frame with other header lines before or after its Content-Length
\* line is read as the frame with the Content-Length line alone is: the
\* header is never rejected, the body length is the one that line declares,
\* and the message decoded is the message framed.
C33_ExtraHeadersIgnored ==
    /\ f_pc # "error"
    /\ f_pc \in {"read_body", "done"} => f_len = ContentLen(f_msg)
    /\ f_pc = "done" => (f_out = f_msg /\ f_stream = <<>>)

\* a frame with a header line on each side of Content-Length was read back
C33_Witness ==
    /\ f_pc = "done"
    /\ f_msg # <<>>
    /\ f_out = f_msg
    /\ Len(f_header) = 3
    /\ {1, 3} \subseteq ExtraLines

\* C34: starting from a new context file, with files that each fit within
\* CLAUDE_TOKEN_LIMIT, after any sequence of process_node calls the current
\* context file holds no more than CLAUDE_TOKEN_LIMIT tokens.
C34_NoFileAboveLimit ==
    context_file.current_tokens <= CLAUDE_TOKEN_LIMIT

\* how many times the content of file f stands in the context files
Appended(f) ==
    LET Places == UNION {{<<p, i>> : i \in {j \in DOMAIN disk[p] :
                                               /\ disk[p][j].piece = "file"
                                               /\ disk[p][j].part = f}} :
                         p \in DOMAIN disk}
    IN  Cardinality(Places)

\* the tokens of the files of a set
RECURSIVE TokensOf(_)
TokensOf(files) ==
    IF files = {} THEN 0
    ELSE LET f == CHOOSE x \in files : TRUE
         IN  tokens_of[f] + TokensOf(files \ {f})

\* C36: a process_node call on a file that is in included_files changes
\* nothing; the content of each file stands at most once in the context
\* files, and total_tokens counts each included file at most once.
C36_IncludedFileIsSkipped ==
    /\ (IsFile(n_call.path) /\ n_call.path \in n_before.included_files) =>
          /\ total_tokens = n_before.total_tokens
          /\ processed = n_before.processed
          /\ included_files = n_before.included_files
          /\ context_file = n_before.context_file
          /\ disk = n_before.disk
    /\ \A f \in TextFiles : Appended(f) <= 1
    /\ total_tokens <= TokensOf(included_files)

\* a file that had been read was handed to process_node again, to be read
C36_Witness ==
    /\ n_call = NodeCall(RootFile, "Read")
    /\ RootFile \in n_before.included_files
    /\ Appended(RootFile) = 1
    /\ total_tokens = tokens_of[RootFile]

\* the elements of a sequence
Range(q) == {q[i] : i \in DOMAIN q}

\* a directory with all that the directory map records in and below it
RECURSIVE Subtree(_)
Subtree(d) ==
    IF d \notin DOMAIN DirInfo THEN {d}
    ELSE {d} \cup Range(DirInfo[d].files)
             \cup UNION {Subtree(c) : c \in Range(DirInfo[d].subdirs)}

\* the last call was process_node(d, Exclude) on a directory
ExcludedDirectory == n_call.action = "Exclude" /\ n_call.path \in Nodes /\ ~IsFile(n_call.path)

\* the call left the files included, the total and the context file alone
NothingWritten ==
    /\ included_files = n_before.included_files
    /\ total_tokens = n_before.total_tokens
    /\ context_file = n_before.context_file
    /\ disk = n_before.disk

\* C37 as stated: after process_node(d, Exclude) on a directory, d and all
\* that the directory map records in and below it are processed, and
\* included_files, total_tokens and the context file are as before.
C37_ExcludeMarksAllBelow ==
    ExcludedDirectory =>
        /\ Subtree(n_call.path) \subseteq processed
        /\ NothingWritten

\* C37 amended: that holds for a directory that was not yet processed, and
\* then nothing else is marked; on a directory that was already processed
\* the call changes nothing at all.
C37_ExcludeMarksAllBelowUnprocessed ==
    ExcludedDirectory =>
        /\ NothingWritten
        /\ IF n_call.path \in n_before.processed
           THEN processed = n_before.processed
           ELSE processed = n_before.processed \cup Subtree(n_call.path)

\* the root was excluded when parts of it had been processed: its binary
\* files and the unrecorded directory below are now marked too
C37_Witness ==
    /\ n_call = NodeCall(Root, "Exclude")
    /\ n_before.processed = {RootFile}
    /\ processed = Nodes

\* the paths of the tracked context files
TrackedPaths == {all_context_files[i].path : i \in DOMAIN all_context_files}

\* the footers finalization has appended to the file at a path
Footers(path) ==
    {i \in DOMAIN disk[path] : disk[path][i].piece \in {"footer_next", "footer_last"}}

\* a footer of the file names the file itself as the next to read
NamesItself(path) ==
    \E i \in DOMAIN disk[path] :
        /\ disk[path][i].piece = "footer_next"
        /\ disk[path][i].part = path

\* finalize_context_files has returned Ok
FinalizeDone == l_pc \in {"save_cache", "save_summaries"} \/ saved # {} \/ l_ret \in {"Ok", "Err_save_cache"}

\* C35: in the interactive loop the tracked list of context files holds each
\* path once, so that after finalization every tracked file has one footer
\* and none names itself as the next file.
C35_TrackedOnce ==
    /\ Cardinality(TrackedPaths) = Len(all_context_files)
    /\ FinalizeDone =>
          \A path \in TrackedPaths :
              Cardinality(Footers(path)) = 1 /\ ~NamesItself(path)

\* the function has returned
Returned == l_pc = "returned"

\* every tracked context file has its footer
AllFinalized == \A path \in TrackedPaths : Footers(path) # {}

\* C38 as stated: however the loop ended, when process_interactive_loop
\* returns the context files are finalized, both caches are saved and the
\* value returned is Ok.
C38_AlwaysFinalizedSavedOk ==
    Returned => AllFinalized /\ saved = {"cache", "summaries"} /\ l_ret = "Ok"

\* C38 amended: however the loop ended, finalization is attempted, then the
\* action cache is saved, then the summary cache; the first of the three
\* that fails ends the function with its error and the later ones are not
\* done. When all three succeed the function returns Ok, also when the loop
\* ended on a failure: that error is never the value returned.
C38_FinalizedSavedUnlessThoseFail ==
    /\ l_ret \in {"none", "Ok", "Err_finalize", "Err_save_cache", "Err_save_summaries"}
    /\ l_pc \in {"finalize", "save_cache", "save_summaries", "returned"} =>
          l_result \in {"Ok", "Err"}
    /\ saved # {} => "cache" \in saved /\ AllFinalized
    /\ Returned =>
          /\ l_ret = "Ok" <=> (AllFinalized /\ saved = {"cache", "summaries"})
          /\ l_ret = "Err_finalize" => saved = {}
          /\ l_ret = "Err_save_cache" => AllFinalized /\ saved = {}
          /\ l_ret = "Err_save_summaries" => AllFinalized /\ saved = {"cache"}

\* the loop ended on a failure after a file was read; the files were
\* finalized, both caches saved and Ok returned
C38_Witness ==
    /\ Returned
    /\ l_result = "Err"
    /\ included_files # {}
    /\ AllFinalized
    /\ saved = {"cache", "summaries"}
    /\ l_ret = "Ok"

\* the cache was initialized before the call at i
InitializedBefore(i) == \E h \in 1..(i - 1) : k_calls[h].op = "initialize"

\* the call at i is the last insert_doc_cache of the content before j
LastDocInsert(i, j, content) ==
    /\ i < j
    /\ k_calls[i].op = "insert_doc_cache"
    /\ k_calls[i].arg[1] = content
    /\ InitializedBefore(i)
    /\ \A h \in (i + 1)..(j - 1) :
          ~(k_calls[h].op = "insert_doc_cache" /\ k_calls[h].arg[1] = content)

\* the call at i is the last insert_source_cache of the content for the
\* path before j
LastSourceInsert(i, j, file_path, content) ==
    /\ i < j
    /\ k_calls[i].op = "insert_source_cache"
    /\ k_calls[i].arg[1] = file_path
    /\ k_calls[i].arg[2] = content
    /\ InitializedBefore(i)
    /\ \A h \in (i + 1)..(j - 1) :
          ~(/\ k_calls[h].op = "insert_source_cache"
            /\ k_calls[h].arg[1] = file_path
            /\ k_calls[h].arg[2] = content)

\* C39: after insert_doc_cache(content, summary) on an initialized cache,
\* has_doc_summary(content) is true and lookup_doc_cache(hash of content)
\* returns an entry, and lookup_source_cache(path, hash) returns an entry
\* after insert_source_cache for that path and content.
C39_InsertedIsFound ==
    \A j \in DOMAIN k_calls :
        /\ k_calls[j].op = "has_doc_summary" =>
              \A i \in DOMAIN k_calls :
                  LastDocInsert(i, j, k_calls[j].arg[1]) => k_calls[j].ret = TRUE
        /\ k_calls[j].op = "lookup_doc_cache" =>
              \A i \in DOMAIN k_calls, content \in Contents :
                  (LastDocInsert(i, j, content) /\ k_calls[j].arg[1] = HashContent(content))
                      => k_calls[j].ret # "None"
        /\ k_calls[j].op = "lookup_source_cache" =>
              \A i \in DOMAIN k_calls, file_path \in SourcePaths, content \in Contents :
                  (/\ LastSourceInsert(i, j, file_path, content)
                   /\ k_calls[j].arg[1] = file_path
                   /\ k_calls[j].arg[2] = HashContent(content))
                      => k_calls[j].ret # "None"
====
